---- MODULE Spec2Model ----
(***************************************************************************)
(* ts-scripts: the command dispatcher of src/unnamed/part_001 (the         *)
(* revision README.md documents: vitest, `--watch <index>`, `ignore`,      *)
(* `checkProject`), started from src/src/bin.ts.                           *)
(*                                                                         *)
(* One behaviour of the model is one CLI invocation: bin.ts parses the     *)
(* command line, main looks the command up, getConfig resolves the         *)
(* manifest, the handler runs.  A handler is an async function: it runs    *)
(* to its next `await run(...)`, where a child process is alive, and goes  *)
(* on when the child emits `close` or `error`.  The call stack of the      *)
(* handlers (test -> check -> lint ...) is the variable `stack`.           *)
(*                                                                         *)
(* A JavaScript string is a sequence of lexemes: "--check" is              *)
(* <<"--", "check">>, "tsconfig.json" is <<"tsconfig", ".json">>,          *)
(* "/p/w" is <<"/", "p", "/", "w">>.  The lexemes the code inspects (a     *)
(* leading dash, a trailing ".json", a "/") are always lexemes of their    *)
(* own, so that the code's tests on a string are tests on its lexemes.     *)
(***************************************************************************)
EXTENDS Integers, Sequences, FiniteSets, TLC

VARIABLES
    pc,        \* where the invocation is: "bin", "main", "getConfig", "script", "exited"
    argv,      \* process.argv after `node bin.js`
    manifest,  \* the environment: cwd, the manifest found from it, its `ts-scripts` section
    cfg,       \* <<>> before getConfig returned, <<config>> after
    loads,     \* how many times getConfig ran
    stack,     \* the handlers being awaited, innermost last
    spawns,    \* every child_process.spawn call so far, in order
    result,    \* the promise main returned: pending, resolved or rejected with an error
    exitCode,  \* the exit code of the process, NoExit while it runs
    out        \* the lines written by console.log / console.error / process.stdout

vars == <<pc, argv, manifest, cfg, loads, stack, spawns, result, exitCode, out>>

(***************************************************************************)
(* Bounds of the model.                                                    *)
(***************************************************************************)
MaxFlags == 2

(***************************************************************************)
(* Strings and sequences.                                                  *)
(***************************************************************************)
Range(s) == {s[i] : i \in 1..Len(s)}

Lit(x) == <<x>>

Opt(x) == <<"--", x>>

Last(s) == s[Len(s)]

RECURSIVE Flatten(_)
Flatten(ss) == IF ss = <<>> THEN <<>> ELSE Head(ss) \o Flatten(Tail(ss))

RECURSIVE SeqsUpTo(_, _)
SeqsUpTo(S, n) ==
    IF n = 0 THEN {<<>>}
    ELSE LET shorter == SeqsUpTo(S, n - 1)
         IN  shorter \cup {Append(s, x) : s \in shorter, x \in S}

\* Array.prototype.join(" ") over strings
RECURSIVE JoinSpace(_)
JoinSpace(ss) ==
    IF ss = <<>> THEN <<>>
    ELSE IF Len(ss) = 1 THEN ss[1]
    ELSE ss[1] \o <<" ">> \o JoinSpace(Tail(ss))

(***************************************************************************)
(* node's path module, on strings whose "/" are lexemes of their own.      *)
(***************************************************************************)
RECURSIVE LastSlash(_, _)
LastSlash(s, i) == IF i = 0 THEN 0 ELSE IF s[i] = "/" THEN i ELSE LastSlash(s, i - 1)

\* path.dirname
dirname(p) ==
    LET k == LastSlash(p, Len(p))
    IN  IF k = 0 THEN <<".">>
        ELSE IF k = 1 THEN <<"/">>
        ELSE SubSeq(p, 1, k - 1)

\* path.posix.join(a, b) for a directory a and a relative pattern b
posixJoin(a, b) ==
    IF a = <<>> THEN b
    ELSE IF Last(a) = "/" THEN a \o b
    ELSE a \o <<"/">> \o b

(***************************************************************************)
(* The `arg` package (arg(spec, { argv })), as the handlers use it: long   *)
(* and short options given as separate words.  spec.bool, spec.str and     *)
(* spec.num are the options of type Boolean, String and Number, spec.alias *)
(* maps an alias to its option.                                            *)
(***************************************************************************)
NoErr == [type |-> "none", msg |-> <<>>]

Err(type, msg) == [type |-> type, msg |-> msg]

Digits == {"0", "1", "2", "3", "4", "5", "6", "7", "8", "9"}

DigitVal(d) ==
    CASE d = "0" -> 0 [] d = "1" -> 1 [] d = "2" -> 2 [] d = "3" -> 3 [] d = "4" -> 4
      [] d = "5" -> 5 [] d = "6" -> 6 [] d = "7" -> 7 [] d = "8" -> 8 [] d = "9" -> 9

\* wholeArg.length > 1 && wholeArg[0] === "-"
IsOptionWord(w) == Len(w) >= 2 /\ w[1] \in {"-", "--"}

\* /^-?\d*(\.(?=\d))?\d*$/ on a word that starts with a dash
IsNegativeNumber(w) == Len(w) = 2 /\ w[1] = "-" /\ w[2] \in Digits

\* Number(word): one digit, a negative digit, or NaN
Number(w) ==
    IF Len(w) = 1 /\ w[1] \in Digits THEN [nan |-> FALSE, n |-> DigitVal(w[1])]
    ELSE IF IsNegativeNumber(w) THEN [nan |-> FALSE, n |-> 0 - DigitVal(w[2])]
    ELSE [nan |-> TRUE, n |-> 0]

ArgSpec(bool, str, num, alias) == [bool |-> bool, str |-> str, num |-> num, alias |-> alias]

NoAlias == [x \in {} |-> <<>>]

RECURSIVE ArgLoop(_, _, _, _)
ArgLoop(spec, words, i, acc) ==
    IF i > Len(words) THEN acc
    ELSE
      LET w == words[i] IN
      IF w = <<"--">> THEN [acc EXCEPT !.pos = @ \o SubSeq(words, i + 1, Len(words))]
      ELSE IF ~IsOptionWord(w) THEN ArgLoop(spec, words, i + 1, [acc EXCEPT !.pos = Append(@, w)])
      ELSE
        LET name == IF w \in DOMAIN spec.alias THEN spec.alias[w] ELSE w IN
        IF name \notin (spec.bool \cup spec.str \cup spec.num)
        THEN [acc EXCEPT !.err = Err("ArgError", <<"unknown or unexpected option: ">> \o w)]
        ELSE IF name \in spec.bool
        THEN ArgLoop(spec, words, i + 1, [acc EXCEPT !.on = @ \cup {name}])
        ELSE IF \/ Len(words) < i + 1
                \/ /\ IsOptionWord(words[i + 1])
                   /\ ~(IsNegativeNumber(words[i + 1]) /\ name \in spec.num)
        THEN [acc EXCEPT !.err = Err("ArgError", <<"option requires argument: ">> \o w)]
        ELSE ArgLoop(spec, words, i + 2,
                     [acc EXCEPT !.vals = (name :> words[i + 1]) @@ @])

\* the parsed options: pos is `_`, on the Boolean options given, vals the
\* word given to each String / Number option, err the ArgError thrown
arg(spec, words) ==
    ArgLoop(spec, words, 1, [pos |-> <<>>, on |-> {}, vals |-> NoAlias, err |-> NoErr])

(***************************************************************************)
(* args(...values): the argument composer.  A fragment is a string, an     *)
(* array of strings, false or undefined.                                   *)
(***************************************************************************)
FStr(s) == [k |-> "str", v |-> <<s>>]

FArr(a) == [k |-> "arr", v |-> a]

FFalse == [k |-> "false", v |-> <<>>]

FUndef == [k |-> "undef", v |-> <<>>]

\* cond && fragment
And(cond, frag) == IF cond THEN frag ELSE FFalse

\* args that tests `arg !== false && arg !== undefined`: "" is pushed too
RECURSIVE argsKeepingEmptyStrings(_)
argsKeepingEmptyStrings(values) ==
    IF values = <<>> THEN <<>>
    ELSE LET a == Head(values)
             pushed == IF a.k \in {"arr", "str"} THEN a.v ELSE <<>>
         IN  pushed \o argsKeepingEmptyStrings(Tail(values))

RECURSIVE args(_)
args(values) ==
    IF values = <<>> THEN <<>>
    ELSE LET a == Head(values)
             pushed == IF a.k = "arr" THEN a.v
                       ELSE IF a.k = "str" /\ a.v[1] # <<>> THEN a.v
                       ELSE <<>>
         IN  pushed \o args(Tail(values))

(***************************************************************************)
(* The manifest section and getConfig.  A raw field is absent, a string,   *)
(* an array of strings, a boolean or a number: [t, v] with v the strings.  *)
(***************************************************************************)
Absent == [t |-> "absent", v |-> <<>>]

RStr(s) == [t |-> "str", v |-> <<s>>]

RArr(a) == [t |-> "arr", v |-> a]

RBool(b) == [t |-> "bool", v |-> <<Lit(IF b THEN "true" ELSE "false")>>]

RNum(n) == [t |-> "num", v |-> <<Lit(n)>>]

\* a raw test entry and the raw `test` field (one object, an array of them, or absent)
RTest(dir, config, project) == [dir |-> dir, config |-> config, project |-> project]

RTestObj(o) == [t |-> "obj", v |-> <<o>>]

RTestArr(a) == [t |-> "arr", v |-> a]

\* string().optional() / boolean().optional() / arrayifySchema(string()).optional()
IsOptString(f) == f.t \in {"absent", "str"}

IsOptBoolean(f) == f.t \in {"absent", "bool"}

\* a schema of array(string()) alone: a lone string is refused
IsOptArray(f) == f.t \in {"absent", "arr"}

IsOptStringOrArray(f) == f.t \in {"absent", "str", "arr"}

IsTestObject(o) == IsOptString(o.dir) /\ IsOptString(o.config) /\ IsOptString(o.project)

\* a schema whose `test` is any(): the test entries are not validated
configSchemaAnyTest(raw) ==
    /\ IsOptBoolean(raw.debug)
    /\ IsOptStringOrArray(raw.src)
    /\ IsOptStringOrArray(raw.ignore)
    /\ IsOptStringOrArray(raw.dist)
    /\ IsOptStringOrArray(raw.project)

\* configSchema.parse(config) does not throw
configSchemaOk(raw) ==
    /\ IsOptBoolean(raw.debug)
    /\ IsOptStringOrArray(raw.src)
    /\ IsOptStringOrArray(raw.ignore)
    /\ IsOptStringOrArray(raw.dist)
    /\ IsOptStringOrArray(raw.project)
    /\ raw.test.t \in {"absent", "obj", "arr"}
    /\ \A i \in 1..Len(raw.test.v) : IsTestObject(raw.test.v[i])

\* arrayify(field?.length ? field : default): an empty array counts as absent
arrayifyOrDefaultWhenEmpty(f, default) ==
    IF f.t = "absent" \/ f.v = <<>> THEN (IF default.t = "arr" THEN default.v ELSE <<default.v[1]>>)
    ELSE IF f.t = "arr" THEN f.v
    ELSE <<f.v[1]>>

\* arrayify(field ?? default), default a string or an array
arrayify(f, default) ==
    IF f.t = "absent" THEN (IF default.t = "arr" THEN default.v ELSE <<default.v[1]>>)
    ELSE IF f.t = "arr" THEN f.v
    ELSE <<f.v[1]>>

\* a value of type string | undefined
Undefined == [def |-> FALSE, v |-> <<>>]

Optional(f) == IF f.t = "str" THEN [def |-> TRUE, v |-> f.v[1]] ELSE Undefined

\* JavaScript truthiness of a string | undefined
Truthy(o) == o.def /\ o.v # <<>>

emptyTest == RTest(Absent, Absent, Absent)

\* the object getConfig returns (part_001:468-480)
getConfig(m) ==
    [ debug        |-> m.raw.debug.t = "bool" /\ m.raw.debug.v = <<Lit("true")>>,
      dir          |-> dirname(IF m.pkg = <<>> THEN m.cwd ELSE m.pkg[1]),
      src          |-> arrayify(m.raw.src, RStr(<<"src">>)),
      ignore       |-> arrayify(m.raw.ignore, RArr(<<>>)),
      dist         |-> arrayify(m.raw.dist, RStr(<<"dist">>)),
      project      |-> arrayify(m.raw.project, RStr(<<"tsconfig", ".json">>)),
      checkProject |-> arrayify(m.raw.project, RStr(<<"tsconfig", ".json">>)),
      test         |-> LET ts == IF m.raw.test.t = "absent" THEN <<emptyTest>> ELSE m.raw.test.v
                       IN  [i \in 1..Len(ts) |->
                              [dir |-> Optional(ts[i].dir), config |-> Optional(ts[i].config)]] ]

(***************************************************************************)
(* The environments the model runs in.                                     *)
(***************************************************************************)
Cwd == <<"/", "p", "/", "w">>

PkgAtCwd == <<Cwd \o <<"/", "package.json">>>>

PkgAbove == <<<<"/", "p", "/", "package.json">>>>

NoRaw ==
    [debug |-> Absent, src |-> Absent, ignore |-> Absent, dist |-> Absent,
     project |-> Absent, checkProject |-> Absent, test |-> Absent, unknown |-> Absent]

Env(pkg, raw) == [cwd |-> Cwd, pkg |-> pkg, raw |-> raw]

TsconfigJson == <<"tsconfig", ".json">>

BuildJson == <<"tsconfig.build", ".json">>

Manifests ==
    { \* no package.json above cwd
      Env(<<>>, NoRaw),
      \* { "test": [{}] }
      Env(PkgAtCwd, [NoRaw EXCEPT !.test = RTestArr(<<emptyTest>>)]),
      \* every phase disabled
      Env(PkgAtCwd, [NoRaw EXCEPT !.src = RArr(<<>>), !.dist = RArr(<<>>),
                                  !.project = RArr(<<>>), !.test = RTestArr(<<>>)]),
      \* two projects, two test configs, ignore patterns, debug
      Env(PkgAtCwd, [NoRaw EXCEPT !.debug = RBool(TRUE),
                                  !.src = RArr(<<Lit("src"), Lit("lib")>>),
                                  !.ignore = RStr(Lit("gen")),
                                  !.project = RArr(<<TsconfigJson, BuildJson>>),
                                  !.test = RTestArr(<<RTest(RStr(Lit("a")), Absent, Absent),
                                                      RTest(Absent, RStr(Lit("v.config.ts")), Absent)>>)]),
      \* a project file without the .json suffix, a checkProject, an unknown key, found above cwd
      Env(PkgAbove, [NoRaw EXCEPT !.dist = RArr(<<>>),
                                  !.project = RStr(Lit("proj")),
                                  !.checkProject = RArr(<<<<"tsconfig.check", ".json">>>>),
                                  !.unknown = RStr(Lit("x")),
                                  !.test = RTestObj(RTest(RStr(<<>>), Absent, RStr(TsconfigJson)))]),
      \* a dist directory and no project
      Env(PkgAtCwd, [NoRaw EXCEPT !.project = RArr(<<>>), !.test = RTestArr(<<>>)]),
      \* a field of the wrong type
      Env(PkgAtCwd, [NoRaw EXCEPT !.src = RNum("3")]),
      Env(PkgAtCwd, [NoRaw EXCEPT !.test = RTestArr(<<RTest(RBool(TRUE), Absent, Absent)>>)]) }

(***************************************************************************)
(* path.resolve and path.relative, on the segments between the "/".        *)
(***************************************************************************)
RECURSIVE SplitFrom(_, _, _, _)
SplitFrom(p, i, cur, acc) ==
    IF i > Len(p) THEN (IF cur = <<>> THEN acc ELSE Append(acc, cur))
    ELSE IF p[i] = "/" THEN SplitFrom(p, i + 1, <<>>, IF cur = <<>> THEN acc ELSE Append(acc, cur))
    ELSE SplitFrom(p, i + 1, Append(cur, p[i]), acc)

Segments(p) == SplitFrom(p, 1, <<>>, <<>>)

\* drop "." segments, let ".." remove the segment before it
RECURSIVE NormalizeSegs(_, _)
NormalizeSegs(segs, acc) ==
    IF segs = <<>> THEN acc
    ELSE IF Head(segs) = <<".">> THEN NormalizeSegs(Tail(segs), acc)
    ELSE IF Head(segs) = <<"..">>
         THEN NormalizeSegs(Tail(segs), IF acc = <<>> THEN acc ELSE SubSeq(acc, 1, Len(acc) - 1))
    ELSE NormalizeSegs(Tail(segs), Append(acc, Head(segs)))

RECURSIVE JoinSlash(_)
JoinSlash(segs) ==
    IF segs = <<>> THEN <<>>
    ELSE IF Len(segs) = 1 THEN segs[1]
    ELSE segs[1] \o <<"/">> \o JoinSlash(Tail(segs))

IsAbsolute(p) == p # <<>> /\ p[1] = "/"

\* path.resolve(base, x), base absolute
resolve(base, x) ==
    LET segs == NormalizeSegs(IF IsAbsolute(x) THEN Segments(x) ELSE Segments(base) \o Segments(x), <<>>)
    IN  <<"/">> \o JoinSlash(segs)

RECURSIVE CommonPrefix(_, _)
CommonPrefix(a, b) ==
    IF a = <<>> \/ b = <<>> \/ Head(a) # Head(b) THEN 0
    ELSE 1 + CommonPrefix(Tail(a), Tail(b))

\* path.relative(from, to); relative operands are resolved against process.cwd()
relative(from, to, processCwd) ==
    LET f == Segments(resolve(processCwd, from))
        g == Segments(resolve(processCwd, to))
        k == CommonPrefix(f, g)
        ups == [i \in 1..(Len(f) - k) |-> <<"..">>]
    IN  JoinSlash(ups \o SubSeq(g, k + 1, Len(g)))

\* String.prototype.startsWith("..")
startsWithDotDot(s) == s # <<>> /\ s[1] = ".."

(***************************************************************************)
(* Paths of the tools and of the bundled configuration files.              *)
(***************************************************************************)
ConfigDir == <<"ts-scripts", "/", "configs">>

PATHS(tool) ==
    <<"node_modules", "/">> \o
    Lit(CASE tool = "prettier" -> "prettier/bin-prettier.js"
          [] tool = "prettierPluginPackage" -> "prettier-plugin-package/lib/index.js"
          [] tool = "eslint" -> "eslint/bin/eslint.js"
          [] tool = "rimraf" -> "rimraf/bin.js"
          [] tool = "typescript" -> "typescript/bin/tsc"
          [] tool = "lintStaged" -> "lint-staged/bin/lint-staged.js"
          [] tool = "vitest" -> "vitest/vitest.mjs"
          [] tool = "husky" -> "husky/lib/bin.js")

\* the error resolvePath throws when find-up finds nothing
Unresolved(tool) == Err("TypeError", <<"Unable to resolve: ">> \o PATHS(tool))

PRETTIER_GLOB == Lit("*.{js,jsx,ts,tsx,cjs,mjs,json,css,md,yml,yaml}")

ESLINT_GLOB == Lit("*.{js,jsx,ts,tsx}")

\* process.env of the invocation
ProcessEnv == ("PATH" :> Lit("/bin")) @@ ("TS_SCRIPTS_LINT_GLOB" :> Lit("stale"))

NoEnv == [x \in {} |-> <<>>]

(***************************************************************************)
(* State of one invocation.                                                *)
(***************************************************************************)
Config == cfg[1]

Top == stack[Len(stack)]

Frame(fn, words) == [fn |-> fn, pc |-> "start", argv |-> words, i |-> 1, child |-> 0, then |-> "return"]

SetTop(f) == [stack EXCEPT ![Len(stack)] = f]

Alive == {i \in 1..Len(spawns) : spawns[i].status = "running"}

Pending == [state |-> "pending", err |-> NoErr]

Log(text) == [stream |-> "stdout", text |-> text]

LogErr(text) == [stream |-> "stderr", text |-> text]

\* the lines run() logs before it spawns (part_001:103-107)
RunLog(path, a, name) ==
    <<Log(<<"> Running \"">> \o name \o <<"\"...">>)>> \o
    (IF Config.debug
     THEN <<Log(<<"> Path: ">> \o path), Log(<<"> Args: ">> \o JoinSpace(a))>>
     ELSE <<>>)

\* the child run() spawns (part_001:110-119)
\* a child that is given --inspect when the debug flag is set
ChildInspectedWhenDebug(path, a, name, env) ==
    [ name   |-> name,
      path   |-> path,
      args   |-> IF Config.debug THEN <<Opt("inspect")>> \o a ELSE a,
      cwd    |-> Config.dir,
      env    |-> env @@ ProcessEnv,
      status |-> "running",
      code   |-> <<>>,
      signal |-> <<>> ]

Child(path, a, name, env) ==
    [ name   |-> name,
      path   |-> path,
      args   |-> a,
      cwd    |-> Config.dir,
      env    |-> env @@ ProcessEnv,
      status |-> "running",
      code   |-> <<>>,
      signal |-> <<>> ]

\* run(path, args, { name, config, env }) up to the point where the promise is
\* pending: log, spawn, and leave the calling frame awaiting the child
run(path, a, name, env, then) ==
    /\ out' = out \o RunLog(path, a, name)
    /\ spawns' = Append(spawns, Child(path, a, name, env))
    /\ stack' = SetTop([Top EXCEPT !.pc = "await", !.child = Len(spawns) + 1, !.then = then])
    /\ UNCHANGED <<pc, argv, manifest, cfg, loads, result, exitCode>>

\* an exception leaves every async frame (none has a try/catch), rejects the
\* promise of main, and bin.ts logs it and exits 1 (bin.ts:18-23)
Throw(e) ==
    /\ stack' = <<>>
    /\ result' = [state |-> "rejected", err |-> e]
    /\ out' = Append(out, LogErr(e.msg))
    /\ exitCode' = <<1>>
    /\ pc' = "exited"
    /\ UNCHANGED <<argv, manifest, cfg, loads>>

\* await PATHS.tool() then run(...): the tool is found or resolvePath throws
Launch(tool, a, name, env, then) ==
    \/ run(PATHS(tool), a, name, env, then)
    \/ Throw(Unresolved(tool)) /\ UNCHANGED spawns

At(fn, where) == pc = "script" /\ stack # <<>> /\ Top.fn = fn /\ Top.pc = where

\* move the running handler to another point without an effect
Goto(where) ==
    /\ stack' = SetTop([Top EXCEPT !.pc = where])
    /\ UNCHANGED <<pc, argv, manifest, cfg, loads, spawns, result, exitCode, out>>

\* a call of a sub-handler that resolves the configuration anew
CallResolvingAgain(fn, words, where) ==
    /\ stack' = Append(SetTop([Top EXCEPT !.pc = where]), Frame(fn, words))
    /\ loads' = loads + 1
    /\ cfg' = <<getConfig(manifest)>>
    /\ UNCHANGED <<pc, argv, manifest, spawns, result, exitCode, out>>

\* call a sub-handler: the caller continues at `where` when it returns
Call(fn, words, where) ==
    /\ stack' = Append(SetTop([Top EXCEPT !.pc = where]), Frame(fn, words))
    /\ UNCHANGED <<pc, argv, manifest, cfg, loads, spawns, result, exitCode, out>>

(***************************************************************************)
(* build (part_001:148-175)                                                *)
(***************************************************************************)
\* the project path handed to rimraf as it is
tsbuildinfoUnchanged(x) == x

\* x.replace(/\.json$/, ".tsbuildinfo")
tsbuildinfo(x) ==
    IF x # <<>> /\ Last(x) = ".json"
    THEN SubSeq(x, 1, Len(x) - 1) \o <<".tsbuildinfo">>
    ELSE x

\* the paths handed to rimraf
cleanPaths(config) ==
    config.dist \o [i \in 1..Len(config.project) |-> tsbuildinfo(config.project[i])]

buildArgs(words) == arg(ArgSpec({Opt("no-clean")}, {}, {}, NoAlias), words)

\* build that runs rimraf even with nothing to delete
cleansEvenNothing(noClean, paths) == ~noClean

\* whether build runs rimraf: not --no-clean, and something to delete
cleans(noClean, paths) == ~noClean /\ paths # <<>>

BuildStart ==
    /\ At("build", "start")
    /\ LET a == buildArgs(Top.argv)
           paths == cleanPaths(Config)
       IN  IF a.err # NoErr THEN Throw(a.err) /\ UNCHANGED spawns
           ELSE IF cleans(Opt("no-clean") \in a.on, paths)
           THEN Launch("rimraf", paths, Lit("rimraf"), NoEnv, "tsc")
           ELSE Goto("tsc")

BuildTsc ==
    /\ At("build", "tsc")
    /\ IF Config.project # <<>>
       THEN Launch("typescript", <<Opt("build")>> \o Config.project, Lit("tsc --build"), NoEnv, "return")
       ELSE Goto("return")

(***************************************************************************)
(* pre-commit (part_001:180-193)                                           *)
(***************************************************************************)
PreCommit ==
    /\ At("preCommit", "start")
    /\ Launch("lintStaged",
              <<Opt("config"), ConfigDir \o <<"/", "lint-staged.cjs">>>>,
              Lit("lint-staged"),
              ("TS_SCRIPTS_LINT_GLOB" :> ESLINT_GLOB) @@ ("TS_SCRIPTS_FORMAT_GLOB" :> PRETTIER_GLOB),
              "return")

(***************************************************************************)
(* lint (part_001:198-250)                                                 *)
(***************************************************************************)
RECURSIVE Filter(_, _, _)
Filter(paths, fullSrc, processCwd) ==
    IF paths = <<>> THEN <<>>
    ELSE (IF \E k \in 1..Len(fullSrc) : ~startsWithDotDot(relative(fullSrc[k], Head(paths), processCwd))
          THEN <<Head(paths)>> ELSE <<>>)
         \o Filter(Tail(paths), fullSrc, processCwd)

\* getEslintPaths that falls back to the source globs when the filter leaves nothing
getEslintPathsGlobWhenNoneLeft(paths, filter, config, processCwd) ==
    LET globs == [i \in 1..Len(config.src) |-> posixJoin(config.src[i], <<"**", "/">> \o ESLINT_GLOB)]
        kept == IF filter
                THEN Filter(paths, [i \in 1..Len(config.src) |-> resolve(config.dir, config.src[i])], processCwd)
                ELSE paths
    IN  IF kept = <<>> THEN globs ELSE kept

getEslintPaths(paths, filter, config, processCwd) ==
    IF paths = <<>>
    THEN [i \in 1..Len(config.src) |-> posixJoin(config.src[i], <<"**", "/">> \o ESLINT_GLOB)]
    ELSE IF filter
    THEN Filter(paths, [i \in 1..Len(config.src) |-> resolve(config.dir, config.src[i])], processCwd)
    ELSE paths

getEslintConfig == ConfigDir \o <<"/", "eslint.js">>

lintArgs(words) == arg(ArgSpec({Opt("filter-paths"), Opt("check")}, {}, {}, NoAlias), words)

\* config.ignore.flatMap((ignore) => ["--ignore-pattern", ignore])
ignorePatterns(config) ==
    Flatten([i \in 1..Len(config.ignore) |-> <<Opt("ignore-pattern"), config.ignore[i]>>])

\* the argument vector lint gives eslint
eslintArgs(a, config, processCwd) ==
    args(<< And(Opt("check") \notin a.on, FStr(Opt("fix"))),
            FArr(<<Opt("config"), getEslintConfig>>),
            FArr(ignorePatterns(config)),
            FArr(getEslintPaths(a.pos, Opt("filter-paths") \in a.on, config, processCwd)) >>)

Lint ==
    /\ At("lint", "start")
    /\ LET a == lintArgs(Top.argv)
       IN  IF a.err # NoErr THEN Throw(a.err) /\ UNCHANGED spawns
           ELSE Launch("eslint", eslintArgs(a, Config, manifest.cwd), Lit("eslint"), NoEnv, "return")

(***************************************************************************)
(* format (part_001:356-393)                                               *)
(***************************************************************************)
formatArgs(words) == arg(ArgSpec({Opt("check")}, {}, {}, NoAlias), words)

\* target list of format that negates the ignore patterns only beside the globs
formatPathsIgnoringBesideGlobs(pos, config) ==
    IF pos = <<>>
    THEN <<PRETTIER_GLOB>> \o
         [i \in 1..Len(config.src) |-> posixJoin(config.src[i], <<"**", "/">> \o PRETTIER_GLOB)] \o
         [i \in 1..Len(config.ignore) |-> <<"!">> \o config.ignore[i]]
    ELSE pos

formatPaths(pos, config) ==
    (IF pos = <<>>
     THEN <<PRETTIER_GLOB>> \o
          [i \in 1..Len(config.src) |-> posixJoin(config.src[i], <<"**", "/">> \o PRETTIER_GLOB)]
     ELSE pos)
    \o [i \in 1..Len(config.ignore) |-> <<"!">> \o config.ignore[i]]

\* the argument vector format gives prettier
prettierArgs(a, config) ==
    args(<< FArr(<<Opt("plugin"), PATHS("prettierPluginPackage")>>),
            And(Opt("check") \notin a.on, FStr(Opt("write"))),
            And(Opt("check") \in a.on, FStr(Opt("check"))),
            FArr(formatPaths(a.pos, config)) >>)

Format ==
    /\ At("format", "start")
    /\ LET a == formatArgs(Top.argv)
       IN  IF a.err # NoErr THEN Throw(a.err) /\ UNCHANGED spawns
           ELSE \/ Launch("prettier", prettierArgs(a, Config), Lit("prettier"), NoEnv, "return")
                \/ Throw(Unresolved("prettierPluginPackage")) /\ UNCHANGED spawns

(***************************************************************************)
(* check (part_001:255-266)                                                *)
(***************************************************************************)
\* check that hands its own flags to lint instead of ["--check"]
CheckLintForwardingFlags == At("check", "start") /\ Call("lint", Top.argv, "format")

CheckLint == At("check", "start") /\ Call("lint", <<Opt("check")>>, "format")

CheckFormat == At("check", "format") /\ Call("format", <<Opt("check")>>, "tsc")

\* the argument vector of the type check of one project
noEmitArgs(project) == <<Opt("noEmit"), Opt("project"), project>>

\* a loop over checkProject that starts at the second entry
checkedProjectsSkippingFirst(config) ==
    IF config.checkProject = <<>> THEN <<>> ELSE Tail(config.checkProject)

\* the projects check type-checks
checkedProjects(config) == config.checkProject

CheckTsc ==
    /\ At("check", "tsc")
    /\ LET projects == checkedProjects(Config)
           i == Top.i
       IN  IF i <= Len(projects)
           THEN Launch("typescript", noEmitArgs(projects[i]),
                       <<"tsc --noEmit --project ">> \o projects[i], NoEnv, "tsc")
           ELSE Goto("return")

(***************************************************************************)
(* specs (part_001:271-342)                                                *)
(***************************************************************************)
specsArgs(words) ==
    arg(ArgSpec({Opt("changed"), Opt("coverage"), Opt("ui"), Opt("update")},
                {Opt("since"), Opt("test-pattern")},
                {Opt("watch")},
                (<<"-", "t">> :> Opt("test-pattern")) @@ (<<"-", "u">> :> Opt("update"))),
        words)

\* the value of a String option: string | undefined
StringOption(a, name) ==
    IF name \in DOMAIN a.vals THEN [def |-> TRUE, v |-> a.vals[name]] ELSE Undefined

\* `if (watch)`: the option was given and Number(word) is neither NaN nor 0
watchGiven(a) ==
    /\ Opt("watch") \in DOMAIN a.vals
    /\ ~Number(a.vals[Opt("watch")]).nan
    /\ Number(a.vals[Opt("watch")]).n # 0

\* config.test[watch] is an entry (watch is a zero-based index)
hasTest(config, watch) == watch >= 0 /\ watch < Len(config.test)

defaultArgs(a) ==
    LET since == StringOption(a, Opt("since"))
        testPattern == StringOption(a, Opt("test-pattern"))
    IN  args(<< FStr(Opt("passWithNoTests")),
                And(Opt("coverage") \in a.on, FStr(Opt("coverage"))),
                And(Opt("update") \in a.on, FStr(Opt("update"))),
                And(Opt("changed") \in a.on /\ ~Truthy(since), FStr(Opt("changed"))),
                And(Truthy(testPattern), FStr(Opt("testNamePattern"))),
                And(Truthy(since), FArr(<<Opt("changed"), since.v>>)),
                And(Opt("ui") \in a.on, FStr(Opt("ui"))),
                FArr(a.pos) >>)

\* vitest arguments that leave the entry's directory out
vitestArgsWithoutDir(mode, test, a) ==
    args(<< FStr(Lit(mode)),
            And(Truthy(test.config), FArr(<<Opt("config"), test.config.v>>)),
            FArr(defaultArgs(a)) >>)

\* the argument vector of one vitest invocation, mode "watch" or "run"
vitestArgs(mode, test, a) ==
    args(<< FStr(Lit(mode)),
            And(Truthy(test.config), FArr(<<Opt("config"), test.config.v>>)),
            And(Truthy(test.dir), FArr(<<Opt("dir"), test.dir.v>>)),
            FArr(defaultArgs(a)) >>)

SpecsStart ==
    /\ At("specs", "start")
    /\ LET a == specsArgs(Top.argv) IN
       IF a.err # NoErr THEN Throw(a.err) /\ UNCHANGED spawns
       ELSE \/ Throw(Unresolved("vitest")) /\ UNCHANGED spawns
            \/ IF watchGiven(a)
               THEN LET watch == Number(a.vals[Opt("watch")]).n IN
                    IF ~hasTest(Config, watch)
                    THEN Throw(Err("TypeError", <<"No test config at: ">> \o a.vals[Opt("watch")]))
                         /\ UNCHANGED spawns
                    ELSE run(PATHS("vitest"), vitestArgs("watch", Config.test[watch + 1], a),
                             Lit("vitest watch"), NoEnv, "return")
               ELSE Goto("loop")

\* a loop over the test entries that starts every run without awaiting it
SpecsLoopWithoutAwait ==
    /\ At("specs", "loop")
    /\ IF Top.i <= Len(Config.test)
       THEN LET a == vitestArgs("run", Config.test[Top.i], specsArgs(Top.argv))
            IN  /\ out' = out \o RunLog(PATHS("vitest"), a, Lit("vitest run"))
                /\ spawns' = Append(spawns, Child(PATHS("vitest"), a, Lit("vitest run"), NoEnv))
                /\ stack' = SetTop([Top EXCEPT !.i = @ + 1])
                /\ UNCHANGED <<pc, argv, manifest, cfg, loads, result, exitCode>>
       ELSE Goto("return")

SpecsLoop ==
    /\ At("specs", "loop")
    /\ IF Top.i <= Len(Config.test)
       THEN Launch("vitest", vitestArgs("run", Config.test[Top.i], specsArgs(Top.argv)),
                   Lit("vitest run"), NoEnv, "loop")
       ELSE Goto("return")

(***************************************************************************)
(* test (part_001:347-351)                                                 *)
(***************************************************************************)
TestCheck == At("test", "start") /\ Call("check", <<>>, "specs")

TestSpecs == At("test", "specs") /\ Call("specs", <<Opt("coverage")>>, "build")

\* test that builds without --no-clean
TestBuildCleaning == At("test", "build") /\ Call("build", <<>>, "return")

TestBuild == At("test", "build") /\ Call("build", <<Opt("no-clean")>>, "return")

(***************************************************************************)
(* install (part_001:398-405) and config (part_001:410-412)                *)
(***************************************************************************)
Install ==
    /\ At("install", "start")
    /\ \E isCI \in BOOLEAN :
         IF isCI THEN Goto("return")
         ELSE Launch("husky", <<Lit("install"), ConfigDir \o <<"/", "husky">>>>, Lit("husky"), NoEnv, "return")

PrintConfig ==
    /\ At("config", "start")
    /\ stack' = SetTop([Top EXCEPT !.pc = "return"])
    /\ out' = Append(out, Log(<<"JSON.stringify(config, null, 2)">>))
    /\ UNCHANGED <<pc, argv, manifest, cfg, loads, spawns, result, exitCode>>

(***************************************************************************)
(* The child of a pending run() emits `close` or `error` (part_001:121-126)*)
(***************************************************************************)
\* what a child can emit: close(code, signal) with code or signal null (<<>>),
\* or error when it could not be spawned
Outcomes ==
    { [ev |-> "close", code |-> <<0>>, signal |-> <<>>],
      [ev |-> "close", code |-> <<1>>, signal |-> <<>>],
      [ev |-> "close", code |-> <<>>,  signal |-> Lit("SIGTERM")],
      [ev |-> "error", code |-> <<>>,  signal |-> <<>>] }

Succeeded(o) == o.ev = "close" /\ o.code = <<0>> /\ o.signal = <<>>

\* run() that forgets `if (code) return reject(...)`
rejectionIgnoringExitCode(name, o) ==
    IF o.ev = "error" THEN Err("SpawnError", <<"spawn node ENOENT">>)
    ELSE IF o.signal # <<>>
    THEN Err("Error", <<"\"">> \o name \o <<"\" exited with ">> \o o.signal)
    ELSE NoErr

\* run() that forgets `if (signal) return reject(...)`
rejectionIgnoringSignal(name, o) ==
    IF o.ev = "error" THEN Err("SpawnError", <<"spawn node ENOENT">>)
    ELSE IF o.code # <<>> /\ o.code[1] # 0
    THEN Err("Error", <<"\"">> \o name \o <<"\" exited with ">> \o Lit(ToString(o.code[1])))
    ELSE NoErr

\* run() without `process.on("error", ...)`: a spawn error is not a failure
rejectionWithoutErrorHandler(name, o) ==
    IF o.code # <<>> /\ o.code[1] # 0
    THEN Err("Error", <<"\"">> \o name \o <<"\" exited with ">> \o Lit(ToString(o.code[1])))
    ELSE IF o.signal # <<>>
    THEN Err("Error", <<"\"">> \o name \o <<"\" exited with ">> \o o.signal)
    ELSE NoErr

\* the error run() rejects with, NoErr when it resolves
rejection(name, o) ==
    IF o.ev = "error" THEN Err("SpawnError", <<"spawn node ENOENT">>)
    ELSE IF o.code # <<>> /\ o.code[1] # 0
    THEN Err("Error", <<"\"">> \o name \o <<"\" exited with ">> \o Lit(ToString(o.code[1])))
    ELSE IF o.signal # <<>>
    THEN Err("Error", <<"\"">> \o name \o <<"\" exited with ">> \o o.signal)
    ELSE NoErr

ChildClose ==
    /\ pc = "script"
    /\ \E c \in Alive, o \in Outcomes :
         LET closed == [spawns EXCEPT ![c].status = IF o.ev = "close" THEN "closed" ELSE "error",
                                      ![c].code = o.code,
                                      ![c].signal = o.signal]
             e == rejection(spawns[c].name, o)
         IN  /\ spawns' = closed
             /\ IF stack # <<>> /\ Top.pc = "await" /\ Top.child = c
                THEN IF e = NoErr
                     THEN /\ stack' = SetTop([Top EXCEPT !.pc = Top.then, !.child = 0, !.i = @ + 1])
                          /\ UNCHANGED <<pc, argv, manifest, cfg, loads, result, exitCode, out>>
                     ELSE Throw(e)
                ELSE UNCHANGED <<pc, argv, manifest, cfg, loads, stack, result, exitCode, out>>

\* an async handler returns: its caller goes on, or main's promise resolves
\* and the process ends with nothing left to do
Return ==
    /\ pc = "script" /\ stack # <<>> /\ Top.pc = "return"
    /\ stack' = SubSeq(stack, 1, Len(stack) - 1)
    /\ IF Len(stack) = 1
       THEN /\ result' = [state |-> "resolved", err |-> NoErr]
            /\ pc' = "exited"
            /\ exitCode' = <<0>>
       ELSE UNCHANGED <<result, pc, exitCode>>
    /\ UNCHANGED <<argv, manifest, cfg, loads, spawns, out>>

(***************************************************************************)
(* main (part_001:493-502) and bin.ts                                      *)
(***************************************************************************)
\* the handler each script name is registered with (part_001:417-427)
scripts ==
    (Lit("build") :> "build") @@ (Lit("pre-commit") :> "preCommit") @@
    (Lit("format") :> "format") @@ (Lit("specs") :> "specs") @@
    (Lit("test") :> "test") @@ (Lit("lint") :> "lint") @@
    (Lit("check") :> "check") @@ (Lit("install") :> "install") @@
    (Lit("config") :> "config")

\* members every object inherits from Object.prototype
ObjectPrototype ==
    {Lit("hasOwnProperty"), Lit("toString"), Lit("constructor"), Lit("__proto__"), Lit("valueOf")}

\* a lookup by property access on a plain object, which finds inherited members
scriptsGetInherited(command) ==
    IF command \in DOMAIN scripts THEN <<scripts[command]>>
    ELSE IF command \in ObjectPrototype THEN <<"inherited">>
    ELSE <<>>

\* scripts.get(command): <<handler>>, or <<>> for undefined
scriptsGet(command) == IF command \in DOMAIN scripts THEN <<scripts[command]>> ELSE <<>>

\* bin.ts:6-9: arg({ "--help", "--npm-start-dir" }, { stopAtPositional: true })
RECURSIVE binArgs(_, _)
binArgs(words, acc) ==
    IF words = <<>> THEN acc
    ELSE IF Head(words) = <<"--">> THEN [acc EXCEPT !.pos = Tail(words)]
    ELSE IF ~IsOptionWord(Head(words)) THEN [acc EXCEPT !.pos = words]
    ELSE IF Head(words) \in {Opt("help"), Opt("npm-start-dir")}
    THEN binArgs(Tail(words), [acc EXCEPT !.on = @ \cup {Head(words)}])
    ELSE [acc EXCEPT !.err = Err("ArgError", <<"unknown or unexpected option: ">> \o Head(words))]

Usage == <<"Supported commands: build, pre-commit, format, specs, test, lint, check, install">>

\* the positional words bin.ts hands to main
MainArgs == binArgs(argv, [pos |-> <<>>, on |-> {}, vals |-> NoAlias, err |-> NoErr]).pos

Command == MainArgs[1]

Flags == Tail(MainArgs)

Bin ==
    /\ pc = "bin"
    /\ LET a == binArgs(argv, [pos |-> <<>>, on |-> {}, vals |-> NoAlias, err |-> NoErr]) IN
       IF a.err # NoErr
       THEN \* an uncaught exception at module level: node prints it and exits 1
            /\ pc' = "exited" /\ exitCode' = <<1>>
            /\ out' = Append(out, LogErr(a.err.msg))
            /\ UNCHANGED <<argv, manifest, cfg, loads, stack, spawns, result>>
       ELSE IF Opt("help") \in a.on \/ a.pos = <<>>
       THEN /\ pc' = "exited" /\ exitCode' = <<0>>
            /\ out' = Append(out, Log(Usage))
            /\ UNCHANGED <<argv, manifest, cfg, loads, stack, spawns, result>>
       ELSE /\ pc' = "main"
            /\ UNCHANGED <<argv, manifest, cfg, loads, stack, spawns, result, exitCode, out>>

\* main that resolves the configuration before it looks the command up
MainLoadingConfigFirst ==
    /\ pc = "main"
    /\ loads' = loads + 1
    /\ IF scriptsGet(Command) = <<>>
       THEN /\ stack' = <<>>
            /\ result' = [state |-> "rejected",
                          err |-> Err("TypeError", <<"Script does not exist: ">> \o Command)]
            /\ out' = Append(out, LogErr(<<"Script does not exist: ">> \o Command))
            /\ exitCode' = <<1>>
            /\ pc' = "exited"
            /\ UNCHANGED <<argv, manifest, cfg, spawns>>
       ELSE /\ pc' = "getConfig"
            /\ UNCHANGED <<argv, manifest, cfg, stack, spawns, result, exitCode, out>>

Main ==
    /\ pc = "main"
    /\ IF scriptsGet(Command) = <<>>
       THEN Throw(Err("TypeError", <<"Script does not exist: ">> \o Command)) /\ UNCHANGED spawns
       ELSE /\ pc' = "getConfig"
            /\ UNCHANGED <<argv, manifest, cfg, loads, stack, spawns, result, exitCode, out>>

\* `const config = await getConfig(options.cwd); return script(flags, config)`
LoadConfig ==
    /\ pc = "getConfig"
    /\ loads' = loads + 1
    /\ IF ~configSchemaOk(manifest.raw)
       THEN /\ stack' = <<>>
            /\ result' = [state |-> "rejected", err |-> Err("ZodError", <<"invalid_type">>)]
            /\ out' = Append(out, LogErr(<<"invalid_type">>))
            /\ exitCode' = <<1>>
            /\ pc' = "exited"
            /\ UNCHANGED <<argv, manifest, cfg, spawns>>
       ELSE /\ cfg' = <<getConfig(manifest)>>
            /\ stack' = <<Frame(scriptsGet(Command)[1], Flags)>>
            /\ pc' = "script"
            /\ UNCHANGED <<argv, manifest, spawns, result, exitCode, out>>

(***************************************************************************)
(* The invocations the model runs.                                         *)
(***************************************************************************)
FlagWords ==
    {Opt("check"), Opt("no-clean"), Opt("watch"), Opt("test-pattern"), <<"-", "t">>,
     Lit("0"), Lit("1"), Lit("2"), <<"src", "/", "a.ts">>}

Unregistered == ObjectPrototype \cup {Lit("deploy")}

Invocations ==
    {<<>>, <<Opt("help")>>, <<Opt("help"), Lit("build")>>, <<Opt("check"), Lit("lint")>>}
    \cup {<<c>> \o f : c \in DOMAIN scripts, f \in SeqsUpTo(FlagWords, MaxFlags)}
    \cup {<<c>> \o f : c \in Unregistered, f \in {<<>>, <<Opt("check")>>}}

Init ==
    /\ pc = "bin"
    /\ argv \in Invocations
    /\ manifest \in Manifests
    /\ cfg = <<>>
    /\ loads = 0
    /\ stack = <<>>
    /\ spawns = <<>>
    /\ result = Pending
    /\ exitCode = <<>>
    /\ out = <<>>

Next ==
    \/ Bin
    \/ Main
    \/ LoadConfig
    \/ BuildStart
    \/ BuildTsc
    \/ PreCommit
    \/ Lint
    \/ Format
    \/ CheckLint
    \/ CheckFormat
    \/ CheckTsc
    \/ SpecsStart
    \/ SpecsLoop
    \/ TestCheck
    \/ TestSpecs
    \/ TestBuild
    \/ Install
    \/ PrintConfig
    \/ ChildClose
    \/ Return

Spec == Init /\ [][Next]_vars

(***************************************************************************)
(* `ts-scripts config` over the shapes a manifest section can take: every  *)
(* array-or-string field absent, a string, an array of one string or the   *)
(* empty array; `test` absent, one object, an array of one object or the   *)
(* empty array, the object with or without `dir`, a `dir` given as array.  *)
(***************************************************************************)
Shapes(x) == {Absent, RStr(x), RArr(<<x>>), RArr(<<>>)}

TestShapes ==
    LET entries == {emptyTest,
                    RTest(RStr(Lit("spec")), Absent, Absent),
                    RTest(RArr(<<Lit("spec")>>), Absent, Absent)}
    IN  {Absent, RTestArr(<<>>)}
        \cup {RTestObj(t) : t \in entries} \cup {RTestArr(<<t>>) : t \in entries}

RawManifests ==
    [ debug        : {Absent},
      src          : Shapes(Lit("lib")),
      ignore       : Shapes(Lit("gen")),
      dist         : Shapes(Lit("out")),
      project      : Shapes(BuildJson),
      checkProject : {Absent, RArr(<<<<"tsconfig.check", ".json">>>>)},
      test         : TestShapes,
      unknown      : {Absent, RStr(Lit("x"))} ]

ConfigManifests == Manifests \cup {Env(PkgAtCwd, raw) : raw \in RawManifests}

ConfigInit ==
    /\ pc = "bin"
    /\ argv = <<Lit("config")>>
    /\ manifest \in ConfigManifests
    /\ cfg = <<>>
    /\ loads = 0
    /\ stack = <<>>
    /\ spawns = <<>>
    /\ result = Pending
    /\ exitCode = <<>>
    /\ out = <<>>

ConfigNext ==
    \/ Bin
    \/ Main
    \/ LoadConfig
    \/ PrintConfig
    \/ Return

ConfigSpec == ConfigInit /\ [][ConfigNext]_vars

(***************************************************************************)
(* The revision with language variants (src/src/index.ts): the manifest    *)
(* has the flags `js` and `react`, and lint and pre-commit derive their    *)
(* glob from them.                                                         *)
(***************************************************************************)
\* extensions that put the untyped component before the typed one
extensionsJsxFirst(config) ==
    <<"ts">> \o (IF config.js THEN <<"js">> ELSE <<>>)
             \o (IF config.js /\ config.react THEN <<"jsx">> ELSE <<>>)
             \o (IF config.react THEN <<"tsx">> ELSE <<>>)

\* index.ts:134-140
extensionsFromConfig(config) ==
    <<"ts">> \o (IF config.js THEN <<"js">> ELSE <<>>)
             \o (IF config.react THEN <<"tsx">> ELSE <<>>)
             \o (IF config.js /\ config.react THEN <<"jsx">> ELSE <<>>)

\* exts.join(",")
RECURSIVE JoinComma(_)
JoinComma(exts) ==
    IF exts = <<>> THEN <<>>
    ELSE IF Len(exts) = 1 THEN exts
    ELSE <<exts[1], ",">> \o JoinComma(Tail(exts))

\* a glob that always uses the braces
eslintGlobAlwaysBraces(config) == <<"*.{">> \o JoinComma(extensionsFromConfig(config)) \o <<"}">>

\* index.ts:148-152
eslintGlob(config) ==
    LET exts == extensionsFromConfig(config)
    IN  IF Len(exts) > 1 THEN <<"*.{">> \o JoinComma(exts) \o <<"}">>
        ELSE <<"*.", exts[1]>>

\* index.ts:143-145
prettierGlob == Lit("*.{js,jsx,ts,tsx,json,css,md,yml,yaml}")

\* the manifest section of this revision: the fields of NoRaw, js and react
VariantRaw(js, react, src) == [NoRaw EXCEPT !.src = src] @@ [js |-> js, react |-> react]

\* configSchema.parse does not throw (index.ts:432-447)
variantSchemaOk(raw) ==
    /\ IsOptBoolean(raw.debug) /\ IsOptBoolean(raw.js) /\ IsOptBoolean(raw.react)
    /\ IsOptStringOrArray(raw.src)
    /\ IsOptStringOrArray(raw.dist)
    /\ IsOptStringOrArray(raw.project)

\* schema.flag ?? false
FlagOn(f) == f = RBool(TRUE)

\* getConfig of this revision (index.ts:452-471), without the test entries
variantConfig(m) ==
    [ debug   |-> FlagOn(m.raw.debug),
      js      |-> FlagOn(m.raw.js),
      react   |-> FlagOn(m.raw.react),
      dir     |-> dirname(IF m.pkg = <<>> THEN m.cwd ELSE m.pkg[1]),
      src     |-> arrayify(m.raw.src, RStr(<<"src">>)),
      dist    |-> arrayify(m.raw.dist, RStr(<<"dist">>)),
      project |-> arrayify(m.raw.project, RStr(<<"tsconfig", ".json">>)) ]

\* index.ts:218-231
variantEslintPaths(paths, filter, config, processCwd) ==
    IF paths = <<>>
    THEN [i \in 1..Len(config.src) |-> posixJoin(config.src[i], <<"**", "/">> \o eslintGlob(config))]
    ELSE IF filter
    THEN Filter(paths, [i \in 1..Len(config.src) |-> resolve(config.dir, config.src[i])], processCwd)
    ELSE paths

\* index.ts:236-238
variantEslintConfig(config) ==
    ConfigDir \o <<"/">> \o (IF config.react THEN <<"eslint.react", ".js">> ELSE <<"eslint", ".js">>)

\* lint (index.ts:243-265)
VariantLint ==
    /\ At("lint", "start")
    /\ LET a == lintArgs(Top.argv)
       IN  IF a.err # NoErr THEN Throw(a.err) /\ UNCHANGED spawns
           ELSE Launch("eslint",
                       args(<< And(Opt("check") \notin a.on, FStr(Opt("fix"))),
                               FArr(<<Opt("config"), variantEslintConfig(Config)>>),
                               FArr(variantEslintPaths(a.pos, Opt("filter-paths") \in a.on,
                                                       Config, manifest.cwd)) >>),
                       Lit("eslint"), NoEnv, "return")

\* preCommit (index.ts:200-213)
VariantPreCommit ==
    /\ At("preCommit", "start")
    /\ Launch("lintStaged",
              <<Opt("config"), ConfigDir \o <<"/", "lint-staged.cjs">>>>,
              Lit("lint-staged"),
              ("TS_SCRIPTS_LINT_GLOB" :> eslintGlob(Config)) @@ ("TS_SCRIPTS_FORMAT_GLOB" :> prettierGlob),
              "return")

\* main's `getConfig(cwd)` and the call of the script (index.ts:491-492)
VariantLoadConfig ==
    /\ pc = "getConfig"
    /\ loads' = loads + 1
    /\ IF ~variantSchemaOk(manifest.raw)
       THEN /\ stack' = <<>>
            /\ result' = [state |-> "rejected", err |-> Err("ZodError", <<"invalid_type">>)]
            /\ out' = Append(out, LogErr(<<"invalid_type">>))
            /\ exitCode' = <<1>>
            /\ pc' = "exited"
            /\ UNCHANGED <<argv, manifest, cfg, spawns>>
       ELSE /\ cfg' = <<variantConfig(manifest)>>
            /\ stack' = <<Frame(scriptsGet(Command)[1], Flags)>>
            /\ pc' = "script"
            /\ UNCHANGED <<argv, manifest, spawns, result, exitCode, out>>

VariantFlags == {Opt("check"), Opt("filter-paths"), <<"src", "/", "a.ts">>}

VariantManifests ==
    {Env(PkgAtCwd, VariantRaw(js, react, src)) :
        js \in {Absent, RBool(TRUE), RBool(FALSE)},
        react \in {Absent, RBool(TRUE), RBool(FALSE), RStr(Lit("yes"))},
        src \in Shapes(Lit("lib"))}

VariantInit ==
    /\ pc = "bin"
    /\ argv \in {<<c>> \o f : c \in {Lit("lint"), Lit("pre-commit")}, f \in SeqsUpTo(VariantFlags, MaxFlags)}
    /\ manifest \in VariantManifests
    /\ cfg = <<>>
    /\ loads = 0
    /\ stack = <<>>
    /\ spawns = <<>>
    /\ result = Pending
    /\ exitCode = <<>>
    /\ out = <<>>

VariantNext ==
    \/ Bin
    \/ Main
    \/ VariantLoadConfig
    \/ VariantLint
    \/ VariantPreCommit
    \/ ChildClose
    \/ Return

VariantSpec == VariantInit /\ [][VariantNext]_vars

(***************************************************************************)
(* A call of args(...values) on its own: the frame holds the fragments,    *)
(* the result the array returned.                                          *)
(***************************************************************************)
MaxFragments == 5

Fragments ==
    {FStr(Lit("a")), FStr(Lit("d")), FStr(<<>>), FFalse, FUndef,
     FArr(<<Lit("b"), Lit("c")>>), FArr(<<>>)}

Returned(value) == [state |-> "resolved", err |-> NoErr, value |-> value]

ArgsInit ==
    /\ pc = "script"
    /\ \E values \in SeqsUpTo(Fragments, MaxFragments) : stack = <<Frame("args", values)>>
    /\ argv = <<>>
    /\ manifest = Env(<<>>, NoRaw)
    /\ cfg = <<>>
    /\ loads = 0
    /\ spawns = <<>>
    /\ result = Pending
    /\ exitCode = <<>>
    /\ out = <<>>

ArgsCall ==
    /\ At("args", "start")
    /\ result' = Returned(args(Top.argv))
    /\ stack' = SetTop([Top EXCEPT !.pc = "return"])
    /\ UNCHANGED <<pc, argv, manifest, cfg, loads, spawns, exitCode, out>>

ArgsSpec == ArgsInit /\ [][ArgsCall]_vars

(***************************************************************************)
(* `lint` and `format` with paths on the command line.                     *)
(***************************************************************************)
PathWords ==
    {Opt("check"), Opt("filter-paths"),
     <<"src", "/", "a.ts">>, <<"lib", "/", "x.ts">>,
     <<"/", "p", "/", "w", "/", "src", "/", "b.ts">>, <<"src", "/", "..", "x.ts">>}

PathInit ==
    /\ pc = "bin"
    /\ argv \in {<<c>> \o f : c \in {Lit("lint"), Lit("format")}, f \in SeqsUpTo(PathWords, MaxFlags)}
    /\ manifest \in Manifests
    /\ cfg = <<>>
    /\ loads = 0
    /\ stack = <<>>
    /\ spawns = <<>>
    /\ result = Pending
    /\ exitCode = <<>>
    /\ out = <<>>

PathNext ==
    \/ Bin
    \/ Main
    \/ LoadConfig
    \/ Lint
    \/ Format
    \/ ChildClose
    \/ Return

PathSpec == PathInit /\ [][PathNext]_vars

(***************************************************************************)
(* Vocabulary of the properties.                                           *)
(***************************************************************************)
BinParsed == binArgs(argv, [pos |-> <<>>, on |-> {}, vals |-> NoAlias, err |-> NoErr])

\* main was called with this command
InMain(cmd) ==
    /\ pc # "bin"
    /\ BinParsed.err = NoErr
    /\ Opt("help") \notin BinParsed.on
    /\ MainArgs # <<>>
    /\ Command = Lit(cmd)

IsTool(i, tool) == spawns[i].path = PATHS(tool)

ClosedOk(i) == spawns[i].status = "closed" /\ spawns[i].code = <<0>> /\ spawns[i].signal = <<>>

Failed(i) == spawns[i].status # "running" /\ ~ClosedOk(i)

Has(i, word) == word \in Range(spawns[i].args)

Rejected == result.state = "rejected" /\ pc = "exited" /\ exitCode = <<1>>

Resolved == result.state = "resolved" /\ pc = "exited" /\ exitCode = <<0>>

\* the message run() gives the failure of child i
FailureNames(i) ==
    IF spawns[i].status = "error" THEN result.err.type = "SpawnError"
    ELSE /\ result.err.type = "Error"
         /\ result.err.msg = <<"\"">> \o spawns[i].name \o <<"\" exited with ">> \o
                (IF spawns[i].signal # <<>> THEN spawns[i].signal ELSE Lit(ToString(spawns[i].code[1])))

\* C1: in a `check` run, once the linter child has failed (non-zero exit,
\* signal or spawn error) no formatter and no type-checker child exists, now
\* or later, and the failure has reached the top: main's promise is rejected
\* with the linter's error and the process has exited with code 1.
C1_LintFailureStopsCheck ==
    InMain("check") =>
        \A i \in 1..Len(spawns) :
            (IsTool(i, "eslint") /\ Failed(i)) =>
                /\ \A j \in 1..Len(spawns) : ~IsTool(j, "prettier") /\ ~IsTool(j, "typescript")
                /\ Rejected
                /\ FailureNames(i)

C1_Witness ==
    /\ InMain("check")
    /\ Len(spawns) = 1 /\ IsTool(1, "eslint") /\ spawns[1].code = <<1>>
    /\ Rejected

TestRunLength == 2 + Len(Config.checkProject) + Len(Config.test) + (IF Config.project # <<>> THEN 1 ELSE 0)

\* C3: in a `test` run the children are spawned in the order of check (linter,
\* formatter, type checks), then specs (one `vitest run` per test entry, each
\* with --coverage), then build (`tsc --build` over the projects, when there
\* are any); rimraf is never spawned; a run that succeeded spawned all of
\* them, so that the project build, when there is one, is the last child.
C3_TestOrder ==
    (InMain("test") /\ cfg # <<>>) =>
        LET nCheck == 2 + Len(Config.checkProject)
            nSpecs == nCheck + Len(Config.test)
        IN  /\ \A i \in 1..Len(spawns) :
                  /\ ~IsTool(i, "rimraf")
                  /\ IsTool(i, "vitest") => Has(i, Opt("coverage"))
                  /\ i = 1 => IsTool(i, "eslint")
                  /\ i = 2 => IsTool(i, "prettier")
                  /\ (i > 2 /\ i <= nCheck) => IsTool(i, "typescript") /\ Has(i, Opt("noEmit"))
                  /\ (i > nCheck /\ i <= nSpecs) =>
                        /\ IsTool(i, "vitest")
                        /\ spawns[i].args[1] = Lit("run")
                  /\ i > nSpecs =>
                        /\ i = nSpecs + 1
                        /\ Config.project # <<>>
                        /\ IsTool(i, "typescript")
                        /\ spawns[i].args = <<Opt("build")>> \o Config.project
            /\ Resolved => /\ Len(spawns) = TestRunLength
                           /\ \A i \in 1..Len(spawns) : ClosedOk(i)

C3_Witness ==
    /\ InMain("test") /\ Resolved
    /\ Len(spawns) = 7
    /\ IsTool(5, "vitest") /\ IsTool(6, "vitest")
    /\ IsTool(7, "typescript") /\ Has(7, Opt("build"))

\* C4: in a `test` run a child that failed is the last child ever spawned:
\* when it fails, `test` is rejected with that child's error and the process
\* exits 1, so a failure in check leaves no test runner and no build, and a
\* failed test runner leaves no later test runner and no build.
C4_TestStopsAtFirstFailure ==
    InMain("test") =>
        \A i \in 1..Len(spawns) :
            Failed(i) =>
                /\ i = Len(spawns)
                /\ Rejected
                /\ FailureNames(i)
                /\ ~Has(i, Opt("build")) => \A j \in 1..Len(spawns) : ~Has(j, Opt("build"))
                /\ (~Has(i, Opt("build")) /\ ~IsTool(i, "vitest")) =>
                        \A j \in 1..Len(spawns) : ~IsTool(j, "vitest")

C4_Witness ==
    /\ InMain("test")
    /\ Len(spawns) = 5 /\ IsTool(5, "vitest") /\ IsTool(4, "typescript")
    /\ spawns[5].signal = Lit("SIGTERM")
    /\ Rejected

\* C5: in a `check` or `test` run, whatever flags were given and whatever
\* the configuration, no linter child gets --fix, no formatter child gets
\* --write, and every formatter child gets --check.
C5_NoAutoFix ==
    (InMain("check") \/ InMain("test")) =>
        \A i \in 1..Len(spawns) :
            /\ IsTool(i, "eslint") => ~Has(i, Opt("fix"))
            /\ IsTool(i, "prettier") => ~Has(i, Opt("write")) /\ Has(i, Opt("check"))

C5_Witness ==
    /\ InMain("check")
    /\ Flags = <<Lit("0"), Opt("no-clean")>>
    /\ Len(spawns) >= 2 /\ IsTool(1, "eslint") /\ IsTool(2, "prettier")
    /\ Config.ignore # <<>>

\* C6: `build` with dist = [] and project = [], with or without --no-clean,
\* spawns no child at all (no rimraf, no tsc), is never rejected, keeps
\* running until it exits, and exits resolved with code 0.
C6_EmptyBuildSpawnsNothing ==
    ( /\ InMain("build") /\ cfg # <<>>
      /\ Config.dist = <<>> /\ Config.project = <<>>
      /\ buildArgs(Flags).err = NoErr ) =>
        /\ spawns = <<>>
        /\ result.state # "rejected"
        /\ pc = "exited" => Resolved
        /\ pc # "exited" => ENABLED Next

C6_Witness ==
    /\ InMain("build") /\ cfg # <<>>
    /\ Config.dist = <<>> /\ Config.project = <<>>
    /\ Flags = <<>>
    /\ spawns = <<>>
    /\ Resolved

\* a project path with a trailing ".json" replaced by ".tsbuildinfo"
JsonSwapped(p) ==
    IF Last(p) = ".json" THEN SubSeq(p, 1, Len(p) - 1) \o <<".tsbuildinfo">> ELSE p

\* C7: in a `build` run without --no-clean a type-checker child exists only
\* after a rimraf child that has closed with success; rimraf is the first
\* child and gets the dist entries followed by each project path with its
\* trailing .json replaced by .tsbuildinfo; when rimraf fails nothing else is
\* spawned and build is rejected with its error.  With --no-clean no rimraf
\* child exists.
C7_CleanBeforeBuild ==
    (InMain("build") /\ cfg # <<>> /\ buildArgs(Flags).err = NoErr) =>
        LET noClean == Opt("no-clean") \in buildArgs(Flags).on IN
        /\ noClean => \A i \in 1..Len(spawns) : ~IsTool(i, "rimraf")
        /\ \A i \in 1..Len(spawns) :
              /\ (IsTool(i, "typescript") /\ ~noClean) =>
                    i = 2 /\ IsTool(1, "rimraf") /\ ClosedOk(1)
              /\ IsTool(i, "rimraf") =>
                    /\ i = 1
                    /\ spawns[i].args =
                         Config.dist \o [k \in 1..Len(Config.project) |-> JsonSwapped(Config.project[k])]
                    /\ Failed(i) => Len(spawns) = 1 /\ Rejected /\ FailureNames(i)

C7_Witness ==
    /\ InMain("build") /\ Flags = <<>>
    /\ Len(spawns) = 2
    /\ IsTool(1, "rimraf") /\ ClosedOk(1)
    /\ spawns[1].args = <<Lit("dist"), <<"tsconfig", ".tsbuildinfo">>, <<"tsconfig.build", ".tsbuildinfo">>>>
    /\ IsTool(2, "typescript")

\* main was called, with some command
MainCalled ==
    /\ pc # "bin"
    /\ BinParsed.err = NoErr
    /\ Opt("help") \notin BinParsed.on
    /\ MainArgs # <<>>

UnknownCommand == Err("TypeError", <<"Script does not exist: ">> \o Command)

\* the names README.md documents, with `config`
RegisteredNames ==
    {Lit("build"), Lit("pre-commit"), Lit("format"), Lit("specs"), Lit("test"),
     Lit("lint"), Lit("check"), Lit("install"), Lit("config")}

\* C8: when main is called with a command that is not registered, getConfig
\* never runs, no configuration exists, no handler is called and no child is
\* spawned; main is rejected with the error that names the command.
C8_UnknownCommandFailsFirst ==
    (MainCalled /\ Command \notin RegisteredNames) =>
        /\ loads = 0 /\ cfg = <<>>
        /\ stack = <<>> /\ spawns = <<>>
        /\ pc \in {"main", "exited"}
        /\ pc = "exited" => Rejected /\ result.err = UnknownCommand

C8_Witness ==
    /\ MainCalled /\ Command = Lit("deploy") /\ Flags = <<Opt("check")>>
    /\ Rejected /\ result.err.msg = <<"Script does not exist: ", "deploy">>

\* the handler README.md and part_001:417-427 give each command
HandlerOf(command) ==
    CASE command = Lit("build") -> "build"
      [] command = Lit("pre-commit") -> "preCommit"
      [] command = Lit("format") -> "format"
      [] command = Lit("specs") -> "specs"
      [] command = Lit("test") -> "test"
      [] command = Lit("lint") -> "lint"
      [] command = Lit("check") -> "check"
      [] command = Lit("install") -> "install"
      [] command = Lit("config") -> "config"
      [] OTHER -> "none"

\* C9: a command that names an inherited object member and no script never
\* gets a handler: no frame is ever pushed for it, no configuration is
\* loaded, and main is rejected with the unknown-command error; and the
\* handler main calls is always the one registered under the command.
C9_OwnEntriesOnly ==
    MainCalled =>
        /\ Command \in ObjectPrototype =>
              /\ stack = <<>> /\ loads = 0 /\ spawns = <<>>
              /\ pc = "exited" => Rejected /\ result.err = UnknownCommand
        /\ stack # <<>> => stack[1].fn = HandlerOf(Command)

C9_Witness ==
    /\ MainCalled /\ Command = Lit("hasOwnProperty")
    /\ Rejected /\ result.err.msg = <<"Script does not exist: ", "hasOwnProperty">>

\* C10 as claimed: `specs --watch i` with i >= Len(test) spawns nothing and
\* ends rejected.  The code treats `--watch 0` as no --watch at all
\* (`if (watch)`, part_001:308), so with test = [] it resolves.
C10_WatchBeyondEndFails ==
    ( /\ InMain("specs") /\ cfg # <<>>
      /\ specsArgs(Flags).err = NoErr
      /\ Opt("watch") \in DOMAIN specsArgs(Flags).vals
      /\ ~Number(specsArgs(Flags).vals[Opt("watch")]).nan
      /\ Number(specsArgs(Flags).vals[Opt("watch")]).n >= Len(Config.test) ) =>
        /\ spawns = <<>>
        /\ pc = "exited" => Rejected

\* the flags of a `specs` run as the handler parses them
SpecsParsed == specsArgs(Flags)

\* `specs` runs with a configuration and flags that parse, --watch <number> among them
WatchAsked ==
    /\ InMain("specs") /\ cfg # <<>>
    /\ SpecsParsed.err = NoErr
    /\ Opt("watch") \in DOMAIN SpecsParsed.vals
    /\ ~Number(SpecsParsed.vals[Opt("watch")]).nan

WatchIndex == Number(SpecsParsed.vals[Opt("watch")]).n

\* the --config and --dir words a test entry contributes to the runner's arguments
EntryWords(test) ==
    (IF Truthy(test.config) THEN <<Opt("config"), test.config.v>> ELSE <<>>) \o
    (IF Truthy(test.dir) THEN <<Opt("dir"), test.dir.v>> ELSE <<>>)

\* C11 as claimed: `specs --watch i` with 0 <= i < Len(test), i = 0 included,
\* spawns at most one child, a vitest in watch mode carrying the --config and
\* --dir of test[i] right after the mode word, and a run that resolved spawned
\* exactly that one.  The code takes `--watch 0` for no --watch (`if (watch)`,
\* part_001:308) and runs every entry in `run` mode.
C11_WatchRunsOneEntry ==
    (WatchAsked /\ WatchIndex >= 0 /\ WatchIndex < Len(Config.test)) =>
        LET words == EntryWords(Config.test[WatchIndex + 1]) IN
        /\ Len(spawns) <= 1
        /\ \A i \in 1..Len(spawns) :
              /\ IsTool(i, "vitest")
              /\ spawns[i].args[1] = Lit("watch")
              /\ SubSeq(spawns[i].args, 2, 1 + Len(words)) = words
        /\ Resolved => Len(spawns) = 1

\* C11 for the positions the code does handle: 1 <= i < Len(test)
C11_WatchFromOne ==
    (WatchAsked /\ WatchIndex >= 1 /\ WatchIndex < Len(Config.test)) =>
        LET words == EntryWords(Config.test[WatchIndex + 1]) IN
        /\ Len(spawns) <= 1
        /\ \A i \in 1..Len(spawns) :
              /\ IsTool(i, "vitest")
              /\ spawns[i].args[1] = Lit("watch")
              /\ SubSeq(spawns[i].args, 2, 1 + Len(words)) = words
        /\ Resolved => Len(spawns) = 1

\* the words of child i after the mode word and the words of its test entry
PassedThrough(i) ==
    LET skip == 1 + Len(EntryWords(Config.test[i]))
    IN  SubSeq(spawns[i].args, skip + 1, Len(spawns[i].args))

\* C12: in a `specs` run without --watch the children are `vitest run`
\* processes, the i-th one for test[i]: it carries the --config and --dir of
\* that entry and then an argument list that is the same for every child and
\* ends with the positional words of the invocation; a child is spawned only
\* once the one before it has closed with success, never more children than
\* entries (none when test is empty), and a run that resolved spawned one
\* child per entry.
C12_OneRunPerEntry ==
    ( /\ InMain("specs") /\ cfg # <<>>
      /\ SpecsParsed.err = NoErr
      /\ Opt("watch") \notin DOMAIN SpecsParsed.vals ) =>
        /\ Len(spawns) <= Len(Config.test)
        /\ \A i \in 1..Len(spawns) :
              /\ IsTool(i, "vitest")
              /\ spawns[i].args =
                    <<Lit("run")>> \o EntryWords(Config.test[i]) \o PassedThrough(i)
              /\ PassedThrough(i) = PassedThrough(1)
              /\ LET n == Len(PassedThrough(i)) IN
                 SubSeq(PassedThrough(i), n - Len(SpecsParsed.pos) + 1, n) = SpecsParsed.pos
              /\ i > 1 => ClosedOk(i - 1)
        /\ Resolved => /\ Len(spawns) = Len(Config.test)
                       /\ \A i \in 1..Len(spawns) : ClosedOk(i)

C12_Witness ==
    /\ InMain("specs") /\ Resolved
    /\ Flags = <<<<"src", "/", "a.ts">>>>
    /\ Len(spawns) = 2
    /\ spawns[1].args = <<Lit("run"), Opt("dir"), Lit("a"), Opt("passWithNoTests"), <<"src", "/", "a.ts">>>>
    /\ spawns[2].args = <<Lit("run"), Opt("config"), Lit("v.config.ts"), Opt("passWithNoTests"), <<"src", "/", "a.ts">>>>

\* C12 where test is empty: `specs` resolves without a child
C12_WitnessEmpty ==
    /\ InMain("specs") /\ Resolved
    /\ Config.test = <<>>
    /\ spawns = <<>>

\* `specs` runs with flags that parse and name a test pattern
PatternAsked ==
    /\ InMain("specs") /\ cfg # <<>>
    /\ SpecsParsed.err = NoErr
    /\ Opt("test-pattern") \in DOMAIN SpecsParsed.vals

Pattern == SpecsParsed.vals[Opt("test-pattern")]

\* the flag is in the words and the word after it is the value
FlagWithValue(words, flag, value) ==
    \E k \in 1..(Len(words) - 1) : words[k] = flag /\ words[k + 1] = value

\* C13 as claimed: in a `specs` run with --test-pattern P or -t P every vitest
\* child has --testNamePattern followed by P among its arguments.  The code
\* pushes the flag alone (`testPattern && "--testNamePattern"`, part_001:302),
\* so the runner takes the next word, if any, for the pattern.
C13_PatternForwarded ==
    PatternAsked =>
        \A i \in 1..Len(spawns) :
            IsTool(i, "vitest") => FlagWithValue(spawns[i].args, Opt("testNamePattern"), Pattern)

\* what the code does forward: the flag, in every child
C13_FlagForwarded ==
    PatternAsked =>
        \A i \in 1..Len(spawns) :
            IsTool(i, "vitest") => Has(i, Opt("testNamePattern"))

\* the promise of main is rejected with an error that run() made
RunFailed == result.state = "rejected" /\ result.err.type \in {"Error", "SpawnError"}

\* C14: whatever the command, run() settles by the outcome of its child.  A
\* child that closed with a non-zero code, was ended by a signal or could not
\* be spawned makes run() fail: nothing is spawned after it and main is
\* rejected with '"<name>" exited with <code>', '"<name>" exited with
\* <signal>' or the spawn error respectively.  run() succeeds only for a
\* child that closed with code 0 and no signal: while the last child is such a
\* child no failure of run() has been reported, and a failure of run() is
\* never reported unless the last child failed.
C14_RunSettlesByOutcome ==
    /\ \A i \in 1..Len(spawns) :
          /\ Failed(i) =>
                /\ i = Len(spawns)
                /\ Rejected
                /\ RunFailed
                /\ FailureNames(i)
                /\ spawns[i].status = "error" <=> result.err.type = "SpawnError"
                /\ spawns[i].signal # <<>> =>
                      result.err.msg = <<"\"">> \o spawns[i].name \o <<"\" exited with ">> \o spawns[i].signal
                /\ spawns[i].code # <<>> =>
                      result.err.msg = <<"\"">> \o spawns[i].name \o <<"\" exited with ", "1">>
          /\ (ClosedOk(i) /\ i = Len(spawns)) => ~RunFailed
    /\ RunFailed => spawns # <<>> /\ Failed(Len(spawns))

C14_Witness ==
    /\ InMain("lint")
    /\ Len(spawns) = 1 /\ spawns[1].status = "error"
    /\ Rejected /\ result.err.type = "SpawnError"

\* C14, exit code: format's prettier closed with code 1
C14_WitnessExitCode ==
    /\ InMain("format")
    /\ Len(spawns) = 1 /\ spawns[1].code = <<1>>
    /\ Rejected /\ result.err.msg = <<"\"", "prettier", "\" exited with ", "1">>

\* the manifest section is { "test": [{}] } and its configuration is resolved
OnlyEmptyTest ==
    /\ cfg # <<>>
    /\ manifest.raw = [NoRaw EXCEPT !.test = RTestArr(<<emptyTest>>)]

\* C15 as claimed: the manifest section { "test": [{}] } resolves to
\* src = ["src"], dist = ["dist"], project = ["tsconfig.json"] and one test
\* entry with dir undefined, env "node" and project "tsconfig.json".  The
\* code keeps only `dir` and `config` of a test entry (part_001:476-479): the
\* resolved entry has no project and no env.
C15_DefaultsOfEmptyTest ==
    OnlyEmptyTest =>
        /\ Config.src = <<Lit("src")>>
        /\ Config.dist = <<Lit("dist")>>
        /\ Config.project = <<TsconfigJson>>
        /\ Len(Config.test) = 1
        /\ Config.test[1].dir = Undefined
        /\ "env" \in DOMAIN Config.test[1] /\ Config.test[1].env = Lit("node")
        /\ "project" \in DOMAIN Config.test[1] /\ Config.test[1].project = TsconfigJson

\* what the code resolves that manifest to
C15_DefaultsResolved ==
    OnlyEmptyTest =>
        /\ Config.src = <<Lit("src")>>
        /\ Config.dist = <<Lit("dist")>>
        /\ Config.project = <<TsconfigJson>>
        /\ Config.ignore = <<>>
        /\ Config.debug = FALSE
        /\ Config.test = <<[dir |-> Undefined, config |-> Undefined]>>

\* the fields a manifest gives as one value or as an array of values
ArrayFields == {"src", "ignore", "dist", "project", "test"}

\* how a lone value of the field is tagged: a string, or a test object
Lone(name) == IF name = "test" THEN "obj" ELSE "str"

WithField(m, name, f) == [m EXCEPT !.raw = [@ EXCEPT ![name] = f]]

\* the manifest with the lone value v of the field replaced by [v], and back
Wrapped(m, name) == WithField(m, name, [t |-> "arr", v |-> m.raw[name].v])

Unwrapped(m, name) == WithField(m, name, [t |-> Lone(name), v |-> m.raw[name].v])

\* the manifest with the `dir` string of every test entry replaced by [dir]
WrappedDir(m) ==
    LET wrap(o) == IF o.dir.t = "str" THEN [o EXCEPT !.dir = RArr(o.dir.v)] ELSE o
        tests == m.raw.test.v
    IN  WithField(m, "test", [t |-> m.raw.test.t, v |-> [k \in 1..Len(tests) |-> wrap(tests[k])]])

\* what resolving a manifest gives: <<configuration>>, or <<>> for a schema error
Resolution(m) == IF configSchemaOk(m.raw) THEN <<getConfig(m)>> ELSE <<>>

\* some test entry of the manifest has a `dir` string
HasDir(m) == \E k \in 1..Len(m.raw.test.v) : m.raw.test.v[k].dir.t = "str"

C17_EmptyArrayKept ==
    \A name \in ArrayFields :
        manifest.raw[name] = RArr(<<>>) =>
            /\ cfg # <<>> => Config[name] = <<>>
            /\ ( /\ pc = "exited"
                 /\ manifest.raw.debug = Absent
                 /\ \A other \in ArrayFields : manifest.raw[other] \in {Absent, RArr(<<>>)} ) =>
                    cfg # <<>> /\ Resolved

C17_Witness ==
    /\ cfg # <<>> /\ Resolved
    /\ \A name \in ArrayFields : manifest.raw[name] = RArr(<<>>) /\ Config[name] = <<>>

\* the projects `check` is to type-check according to the manifest: the
\* `checkProject` entries when given, the build projects otherwise
GivenCheckProjects ==
    IF manifest.raw.checkProject.t = "absent" THEN Config.project
    ELSE arrayify(manifest.raw.checkProject, RArr(<<>>))

\* the projects the type-checker children of a `check` run were given, in order
TypeChecked ==
    LET RECURSIVE From(_)
        From(i) == IF i > Len(spawns) THEN <<>>
                   ELSE IF IsTool(i, "typescript") THEN <<Last(spawns[i].args)>> \o From(i + 1)
                   ELSE From(i + 1)
    IN  From(1)

\* C18 as claimed: the resolved checkProject is the build projects when the
\* manifest has no `checkProject` and the given entries when it has one, and
\* a `check` run that resolved type-checked exactly those entries, in order.
\* The code resolves checkProject from `project` whatever the manifest says
\* (part_001:475), and the schema has no `checkProject` key.
C18_CheckProjectsGiven ==
    cfg # <<>> =>
        /\ Config.checkProject = GivenCheckProjects
        /\ (InMain("check") /\ Resolved) => TypeChecked = GivenCheckProjects

\* what the code does: checkProject is always the build projects
C18_CheckProjectsAreBuildProjects ==
    cfg # <<>> =>
        /\ Config.checkProject = Config.project
        /\ (InMain("check") /\ Resolved) => TypeChecked = Config.project

\* C19 as claimed: the resolved directory is the one that holds the manifest
\* found, and cwd itself when none was found; every child is spawned with
\* that directory as its working directory.  Without a manifest the code
\* takes dirname(cwd) (part_001:470), the parent of cwd.
C19_RootDir ==
    cfg # <<>> =>
        /\ manifest.pkg # <<>> => manifest.pkg[1] = Config.dir \o <<"/", "package.json">>
        /\ manifest.pkg = <<>> => Config.dir = manifest.cwd
        /\ \A i \in 1..Len(spawns) : spawns[i].cwd = Config.dir

\* what the code does: the parent of cwd when no manifest was found
C19_RootDirOrParent ==
    cfg # <<>> =>
        /\ manifest.pkg # <<>> => manifest.pkg[1] = Config.dir \o <<"/", "package.json">>
        /\ manifest.pkg = <<>> => Config.dir \o <<"/", "w">> = manifest.cwd
        /\ \A i \in 1..Len(spawns) : spawns[i].cwd = Config.dir

\* a field the schema declares holds a value of another type than declared:
\* debug not a boolean; src, ignore, dist or project neither a string nor an
\* array; dir, config or project of a test entry not a string
WrongType(raw) ==
    \/ raw.debug.t \notin {"absent", "bool"}
    \/ \E name \in {"src", "ignore", "dist", "project"} : raw[name].t \in {"bool", "num"}
    \/ \E k \in 1..Len(raw.test.v) :
          \E f \in {"dir", "config", "project"} : raw.test.v[k][f].t \notin {"absent", "str"}

\* C20: when main is called with a registered command and a field the schema
\* declares has the wrong type, no configuration is resolved, no handler gets
\* a frame and no child is spawned, and the run ends rejected with the schema
\* error after one call of getConfig.  A key the schema does not declare is no
\* error: the run gets its configuration and handler, and the configuration
\* is the one the manifest without that key resolves to.
C20_SchemaErrorBeforeHandler ==
    (MainCalled /\ Command \in RegisteredNames) =>
        /\ WrongType(manifest.raw) =>
              /\ cfg = <<>> /\ stack = <<>> /\ spawns = <<>>
              /\ pc \in {"main", "getConfig", "exited"}
              /\ pc = "exited" => /\ Rejected
                                  /\ result.err.type = "ZodError"
                                  /\ loads = 1
        /\ (manifest.raw.unknown # Absent /\ ~WrongType(manifest.raw)) =>
              /\ result.err.type # "ZodError"
              /\ loads = 1 => cfg # <<>>
              /\ cfg # <<>> => Resolution(WithField(manifest, "unknown", Absent)) = <<Config>>

C20_Witness ==
    /\ InMain("test")
    /\ manifest.raw.test = RTestArr(<<RTest(RBool(TRUE), Absent, Absent)>>)
    /\ loads = 1 /\ cfg = <<>> /\ spawns = <<>>
    /\ Rejected /\ result.err.type = "ZodError"

\* C20, the unknown key: the run went on to its handler and children
C20_WitnessUnknown ==
    /\ InMain("check") /\ Resolved
    /\ manifest.raw.unknown = RStr(Lit("x"))
    /\ Len(spawns) = 3

\* the extensions section 4.2 derives from the flags: base, then the untyped
\* script, then the typed component, then the untyped component
DerivedExtensions(js, react) ==
    CASE ~js /\ ~react -> <<"ts">>
      [] js /\ ~react  -> <<"ts", "js">>
      [] ~js /\ react  -> <<"ts", "tsx">>
      [] js /\ react   -> <<"ts", "js", "tsx", "jsx">>

IsExtension(x) == x \in {"ts", "js", "tsx", "jsx"}

\* the extensions a glob names, in its order
ExtensionsIn(glob) == SelectSeq(glob, IsExtension)

\* C21: whatever the js and react flags of the manifest, extensionsFromConfig
\* of the resolved configuration is [ts], [ts,js], [ts,tsx] or
\* [ts,js,tsx,jsx] for (false,false), (true,false), (false,true), (true,true):
\* ts comes first, jsx is there only with both flags, nothing is repeated;
\* and these are the extensions, in this order, of the glob that pre-commit
\* hands to lint-staged.
C21_Extensions ==
    cfg # <<>> =>
        LET exts == extensionsFromConfig(Config) IN
        /\ exts = DerivedExtensions(Config.js, Config.react)
        /\ exts[1] = "ts"
        /\ "jsx" \in Range(exts) <=> (Config.js /\ Config.react)
        /\ Cardinality(Range(exts)) = Len(exts)
        /\ \A i \in 1..Len(spawns) :
              IsTool(i, "lintStaged") =>
                  ExtensionsIn(spawns[i].env["TS_SCRIPTS_LINT_GLOB"]) =
                      DerivedExtensions(manifest.raw.js = RBool(TRUE), manifest.raw.react = RBool(TRUE))

C21_Witness ==
    /\ InMain("pre-commit") /\ Resolved
    /\ manifest.raw.js = RBool(TRUE) /\ manifest.raw.react = RBool(TRUE)
    /\ Len(spawns) = 1
    /\ spawns[1].env["TS_SCRIPTS_LINT_GLOB"] = <<"*.{", "ts", ",", "js", ",", "tsx", ",", "jsx", "}">>

\* the glob of the derived extensions: *.ts for one, *.{e1,e2,...} for more
DerivedGlob(js, react) ==
    IF ~js /\ ~react THEN <<"*.", "ts">>
    ELSE IF js /\ react THEN <<"*.{", "ts", ",", "js", ",", "tsx", ",", "jsx", "}">>
    ELSE IF js THEN <<"*.{", "ts", ",", "js", "}">>
    ELSE <<"*.{", "ts", ",", "tsx", "}">>

\* C22: the glob of a configuration is *.ts when ts is the only extension
\* and *.{e1,e2,...} with the extensions in derivation order otherwise; a
\* lint child that got no positional path has one target <src>/**/<glob> per
\* source directory, in order, and a lint-staged child gets the same glob as
\* TS_SCRIPTS_LINT_GLOB.
C22_LintGlob ==
    cfg # <<>> =>
        LET glob == DerivedGlob(Config.js, Config.react) IN
        \A i \in 1..Len(spawns) :
            /\ IsTool(i, "lintStaged") => spawns[i].env["TS_SCRIPTS_LINT_GLOB"] = glob
            /\ (IsTool(i, "eslint") /\ lintArgs(Flags).pos = <<>>) =>
                  LET n == Len(spawns[i].args) IN
                  SubSeq(spawns[i].args, n - Len(Config.src) + 1, n) =
                      [k \in 1..Len(Config.src) |-> Config.src[k] \o <<"/", "**", "/">> \o glob]

C22_Witness ==
    /\ InMain("lint") /\ Resolved
    /\ ~Config.js /\ ~Config.react
    /\ Len(spawns) = 1
    /\ Last(spawns[1].args) = <<"lib", "/", "**", "/", "*.", "ts">>

\* C22, several extensions: the braces and the derivation order
C22_WitnessBraces ==
    /\ InMain("lint") /\ Resolved
    /\ Config.react /\ ~Config.js
    /\ Last(spawns[1].args) = <<"src", "/", "**", "/", "*.{", "ts", ",", "tsx", "}">>

\* what one fragment contributes: an array its elements, a non-empty string
\* itself, and false, undefined and "" nothing
Contribution(frag) ==
    CASE frag.k = "arr" -> frag.v
      [] frag.k = "str" -> IF frag.v[1] = <<>> THEN <<>> ELSE <<frag.v[1]>>
      [] OTHER -> <<>>

\* the fragments of args("a", false, ["b", "c"], undefined, "d")
ExampleFragments == <<FStr(Lit("a")), FFalse, FArr(<<Lit("b"), Lit("c")>>), FUndef, FStr(Lit("d"))>>

\* C23: the array args returns is the contributions of its fragments joined
\* from left to right, so args("a", false, ["b","c"], undefined, "d") is
\* ["a","b","c","d"]; no empty string is in it; and the call leaves the
\* fragments it was given as they were.
C23_ArgsFlattens ==
    /\ [](At("args", "return") =>
            /\ result.value = Flatten([i \in 1..Len(Top.argv) |-> Contribution(Top.argv[i])])
            /\ <<>> \notin Range(result.value)
            /\ Top.argv = ExampleFragments => result.value = <<Lit("a"), Lit("b"), Lit("c"), Lit("d")>>)
    /\ [][At("args", "start") => Top'.argv = Top.argv]_vars

C23_Witness ==
    /\ At("args", "return")
    /\ Top.argv = ExampleFragments
    /\ result.value = <<Lit("a"), Lit("b"), Lit("c"), Lit("d")>>

\* path p is directory dir or lies below it (both absolute)
IsUnder(dir, p) ==
    LET d == Segments(dir)
        q == Segments(p)
    IN  Len(d) <= Len(q) /\ SubSeq(q, 1, Len(d)) = d

\* a candidate path is in or below a source directory of the configuration
InSources(p) ==
    \E k \in 1..Len(Config.src) :
        IsUnder(resolve(Config.dir, Config.src[k]), resolve(manifest.cwd, p))

\* the candidates in or below a source directory, in their order
Retained(paths) == SelectSeq(paths, InSources)

\* a `lint` run whose flags parse
LintParsed == lintArgs(Flags)

\* the targets of eslint child i: what follows --fix, --config and the ignore patterns
Targets(i) ==
    LET skip == (IF Has(i, Opt("fix")) THEN 1 ELSE 0) + 2 + 2 * Len(Config.ignore)
    IN  SubSeq(spawns[i].args, skip + 1, Len(spawns[i].args))

\* C24 as claimed: in a `lint` run with paths, the linter gets the paths as
\* given without --filter-paths, and with it exactly the paths that are in or
\* below a source directory (resolved against the root directory), in their
\* order.  The code keeps a path when relative(src, path) does not start
\* with the characters "..", so a path below src whose first name starts
\* with two dots (src/..x.ts) is dropped.
C24_PathFilter ==
    (InMain("lint") /\ cfg # <<>> /\ LintParsed.err = NoErr /\ LintParsed.pos # <<>>) =>
        \A i \in 1..Len(spawns) :
            Targets(i) = IF Opt("filter-paths") \in LintParsed.on
                         THEN Retained(LintParsed.pos)
                         ELSE LintParsed.pos

\* a name of the path starts with two dots without being ".."
DotDotName(p) == \E k \in 1..(Len(p) - 1) : p[k] = ".." /\ p[k + 1] # "/"

\* what the code does: C24 for paths without such a name
C24_PathFilterPlainNames ==
    ( /\ InMain("lint") /\ cfg # <<>> /\ LintParsed.err = NoErr /\ LintParsed.pos # <<>>
      /\ \A k \in 1..Len(LintParsed.pos) : ~DotDotName(LintParsed.pos[k]) ) =>
        \A i \in 1..Len(spawns) :
            Targets(i) = IF Opt("filter-paths") \in LintParsed.on
                         THEN Retained(LintParsed.pos)
                         ELSE LintParsed.pos

\* the source directories of the configuration, resolved against its directory
FullSrc == [k \in 1..Len(Config.src) |-> resolve(Config.dir, Config.src[k])]

\* C25: in a `lint` run whose flags parse there is at most one child, the
\* linter, and exactly one when the run resolved.  Its arguments are --fix
\* exactly when --check was not given, then --config and the bundled
\* configuration, then --ignore-pattern p for every ignore pattern p in
\* order, whatever the flags, then the targets: the positional paths when
\* there are any, passed through the path filter under --filter-paths and
\* never replaced by a glob (the linter gets no target when the filter keeps
\* none), else <src>/**/*.{js,jsx,ts,tsx} for every source directory in order.
C25_LintArguments ==
    (InMain("lint") /\ cfg # <<>> /\ LintParsed.err = NoErr) =>
        /\ Len(spawns) <= 1
        /\ Resolved => Len(spawns) = 1
        /\ \A i \in 1..Len(spawns) :
              LET check == Opt("check") \in LintParsed.on
                  head == IF check THEN <<>> ELSE <<Opt("fix")>>
                  ignores == Flatten([k \in 1..Len(Config.ignore) |->
                                          <<Opt("ignore-pattern"), Config.ignore[k]>>])
                  targets == IF LintParsed.pos = <<>>
                             THEN [k \in 1..Len(Config.src) |->
                                      Config.src[k] \o <<"/", "**", "/">> \o ESLINT_GLOB]
                             ELSE IF Opt("filter-paths") \in LintParsed.on
                             THEN Filter(LintParsed.pos, FullSrc, manifest.cwd)
                             ELSE LintParsed.pos
              IN  /\ IsTool(i, "eslint")
                  /\ Has(i, Opt("fix")) <=> ~check
                  /\ spawns[i].args =
                        head \o <<Opt("config"), ConfigDir \o <<"/", "eslint.js">>>> \o ignores \o targets

C25_Witness ==
    /\ InMain("lint") /\ Resolved
    /\ Flags = <<Opt("filter-paths"), <<"lib", "/", "x.ts">>>>
    /\ Config.ignore = <<Lit("gen")>>
    /\ spawns[1].args = <<Opt("fix"), Opt("config"), ConfigDir \o <<"/", "eslint.js">>,
                          Opt("ignore-pattern"), Lit("gen"), <<"lib", "/", "x.ts">>>>

\* C25, the filter keeps nothing: the linter is spawned without a target
C25_WitnessNoneLeft ==
    /\ InMain("lint") /\ Resolved
    /\ Flags = <<Opt("filter-paths"), <<"lib", "/", "x.ts">>>>
    /\ Config.src = <<Lit("src")>>
    /\ spawns[1].args = <<Opt("fix"), Opt("config"), ConfigDir \o <<"/", "eslint.js">>>>

\* the parsed flags of a `format` invocation
FormatParsed == formatArgs(Flags)

\* C26: in a `format` run whose flags parse there is at most one child, the
\* formatter, and exactly one when the run resolved.  After --plugin and the
\* plugin's path its arguments are --write when --check was not given and
\* --check when it was, never both, and then the targets: the positional
\* paths when there are any, else the root-level glob followed by
\* <src>/**/<glob> for every source directory in order; !p for every ignore
\* pattern p in order ends the list in both cases.
C26_FormatArguments ==
    (InMain("format") /\ cfg # <<>> /\ FormatParsed.err = NoErr) =>
        /\ Len(spawns) <= 1
        /\ Resolved => Len(spawns) = 1
        /\ \A i \in 1..Len(spawns) :
              LET check == Opt("check") \in FormatParsed.on
                  globs == <<PRETTIER_GLOB>> \o
                           [k \in 1..Len(Config.src) |->
                               Config.src[k] \o <<"/", "**", "/">> \o PRETTIER_GLOB]
                  negated == [k \in 1..Len(Config.ignore) |-> <<"!">> \o Config.ignore[k]]
                  targets == (IF FormatParsed.pos = <<>> THEN globs ELSE FormatParsed.pos)
                             \o negated
                  a == spawns[i].args
              IN  /\ IsTool(i, "prettier")
                  /\ Len(a) = 3 + Len(targets)
                  /\ a[1] = Opt("plugin")
                  /\ a[3] = (IF check THEN Opt("check") ELSE Opt("write"))
                  /\ SubSeq(a, 4, Len(a)) = targets
                  /\ Has(i, Opt("write")) <=> ~check

\* C26, positional paths and an ignore pattern, without --check
C26_Witness ==
    /\ InMain("format") /\ Resolved
    /\ Flags = <<<<"src", "/", "a.ts">>, <<"lib", "/", "x.ts">>>>
    /\ Config.ignore = <<Lit("gen")>>
    /\ SubSeq(spawns[1].args, 3, Len(spawns[1].args)) =
          <<Opt("write"), <<"src", "/", "a.ts">>, <<"lib", "/", "x.ts">>, <<"!", "gen">>>>

\* C26, --check and no positional path: the globs of two source directories
C26_WitnessGlobs ==
    /\ InMain("format") /\ Resolved
    /\ Flags = <<Opt("check")>>
    /\ Len(Config.src) = 2
    /\ spawns[1].args[3] = Opt("check")
    /\ Len(spawns[1].args) = 6 + Len(Config.ignore)

\* C27: at every moment of a run at most one child is alive, and a step that
\* spawns a child spawns exactly one, at a moment when no child is alive:
\* every earlier child has emitted close or error.
C27_OneChildAtATime ==
    /\ [](Cardinality(Alive) <= 1)
    /\ [][Len(spawns') # Len(spawns) =>
             /\ Len(spawns') = Len(spawns) + 1
             /\ Alive = {}
             /\ \A i \in 1..Len(spawns) : spawns'[i] = spawns[i]]_vars

\* C27, the fan-out of specs: the second test run is alive after the first closed
C27_Witness ==
    /\ InMain("specs")
    /\ Len(spawns) = 2
    /\ Alive = {2}
    /\ ClosedOk(1)

\* C27, the loop of check: the type check of the second project is alive
\* after lint, format and the first type check closed
C27_WitnessCheck ==
    /\ InMain("check")
    /\ Len(spawns) = 4
    /\ Alive = {4}
    /\ IsTool(3, "typescript") /\ IsTool(4, "typescript")

\* the fields of the resolved configuration
ConfigFields == {"src", "ignore", "dist", "project", "checkProject", "test", "dir", "debug"}

\* C28: the configuration is resolved at most once in a run of main, and
\* exactly once when the command is registered, by the step that follows the
\* successful lookup of the command, and once it exists
\* no step changes it: whatever handler or sub-handler is running, every
\* field has the value it had at dispatch, and every child is spawned in the
\* directory of that configuration.
C28_ConfigResolvedOnce ==
    /\ [](loads <= 1)
    /\ []((MainCalled /\ Command \in RegisteredNames /\ pc \in {"script", "exited"}) => loads = 1)
    /\ [](cfg # <<>> =>
            /\ loads = 1
            /\ DOMAIN Config = ConfigFields
            /\ \A f \in ConfigFields : Config[f] = getConfig(manifest)[f]
            /\ \A i \in 1..Len(spawns) : spawns[i].cwd = Config.dir)
    /\ [][loads' # loads =>
             /\ loads = 0 /\ cfg = <<>> /\ stack = <<>>
             /\ MainCalled /\ Command \in RegisteredNames]_vars
    /\ [][cfg # <<>> => cfg' = cfg]_vars

\* C28, a composite: the build of `test` runs as a sub-handler after check
\* and specs, under the configuration resolved once
C28_Witness ==
    /\ InMain("test")
    /\ loads = 1
    /\ Len(stack) = 2 /\ Top.fn = "build" /\ Alive # {}
    /\ Len(spawns) >= 4
    /\ Config = getConfig(manifest)

(***************************************************************************)
(* Two runs of the same command line in the same package, the second with  *)
(* the `debug` field of the manifest flipped.  When the first run has       *)
(* exited, Rerun keeps its children and its result beside the manifest and  *)
(* starts bin.ts again; the children of both runs close as they choose.     *)
(***************************************************************************)
TwiceInvocations ==
    {<<c>> \o f : c \in DOMAIN scripts,
                  f \in {<<>>, <<Opt("check")>>, <<Opt("no-clean")>>, <<Opt("watch")>>}}

\* the manifest with `debug` set when it was not and unset when it was
Flipped(m) == [m EXCEPT !.raw.debug = RBool(~getConfig(m).debug)]

\* the first run of a pair, kept for the second one to be compared with
First == manifest.first

Second == "first" \in DOMAIN manifest

TwiceInit ==
    /\ pc = "bin"
    /\ argv \in TwiceInvocations
    /\ manifest \in Manifests
    /\ cfg = <<>>
    /\ loads = 0
    /\ stack = <<>>
    /\ spawns = <<>>
    /\ result = Pending
    /\ exitCode = <<>>
    /\ out = <<>>

Rerun ==
    /\ pc = "exited"
    /\ ~Second
    /\ manifest.raw.debug.t \in {"absent", "bool"}
    /\ manifest' = ("first" :> [spawns |-> spawns, result |-> result, exitCode |-> exitCode])
                   @@ Flipped(manifest)
    /\ pc' = "bin"
    /\ cfg' = <<>>
    /\ loads' = 0
    /\ stack' = <<>>
    /\ spawns' = <<>>
    /\ result' = Pending
    /\ exitCode' = <<>>
    /\ out' = <<>>
    /\ UNCHANGED argv

TwiceNext == Next \/ Rerun

TwiceSpec == TwiceInit /\ [][TwiceNext]_vars

\* what happened to a child: how it ended, its exit code and its signal
Outcome(child) == <<child.status, child.code, child.signal>>

\* the first k children of the second run ended as those of the first run
SameOutcomes(k) == \A j \in 1..k : Outcome(First.spawns[j]) = Outcome(spawns[j])

\* what a child was spawned with
Launched(child) ==
    [name |-> child.name, path |-> child.path, args |-> child.args,
     cwd |-> child.cwd, env |-> child.env]

\* the run failed because a bundled tool could not be found
CouldNotResolve(r) ==
    r.state = "rejected" /\ r.err.type = "TypeError" /\ r.err.msg[1] = "Unable to resolve: "

\* `install` returned at once because the run was in CI (part_001:399)
InCI(children, r) == InMain("install") /\ r.state = "resolved" /\ children = <<>>

Smaller(a, b) == IF a < b THEN a ELSE b

\* C29: two runs of one command line whose configurations differ in `debug`
\* alone spawn the same children.  As long as the children of the second run
\* end as those of the first did, its next child has the name, path,
\* arguments, directory and environment of the first run's; and when both
\* runs found their tools, both or neither ran in CI and all children ended
\* alike, the second run has
\* spawned as many children and ends with the result and exit code of the
\* first.  In either run the environment of a child is the process
\* environment with the caller's overrides laid over it: pre-commit's
\* TS_SCRIPTS_LINT_GLOB replaces the one of the process.
C29_DebugHasNoEffect ==
    /\ \A i \in 1..Len(spawns) :
          /\ DOMAIN spawns[i].env = DOMAIN ProcessEnv \cup
                (IF IsTool(i, "lintStaged")
                 THEN {"TS_SCRIPTS_LINT_GLOB", "TS_SCRIPTS_FORMAT_GLOB"} ELSE {})
          /\ spawns[i].env["PATH"] = ProcessEnv["PATH"]
          /\ spawns[i].env["TS_SCRIPTS_LINT_GLOB"] =
                (IF IsTool(i, "lintStaged") THEN ESLINT_GLOB ELSE ProcessEnv["TS_SCRIPTS_LINT_GLOB"])
          /\ IsTool(i, "lintStaged") => spawns[i].env["TS_SCRIPTS_FORMAT_GLOB"] = PRETTIER_GLOB
    /\ Second =>
          LET both == Smaller(Len(First.spawns), Len(spawns))
          IN  /\ \A i \in 1..both :
                    SameOutcomes(i - 1) => Launched(spawns[i]) = Launched(First.spawns[i])
              /\ ( /\ pc = "exited"
                   /\ SameOutcomes(both)
                   /\ ~CouldNotResolve(First.result)
                   /\ ~CouldNotResolve(result)
                   /\ InCI(First.spawns, First.result) <=> InCI(spawns, result) ) =>
                    /\ Len(spawns) = Len(First.spawns)
                    /\ result = First.result
                    /\ exitCode = First.exitCode

\* C29, `test` with and without debug: both runs spawn the same five or more
\* children and resolve
C29_Witness ==
    /\ Second /\ InMain("test") /\ Resolved
    /\ cfg # <<>> /\ Config.debug
    /\ Len(spawns) >= 5
    /\ [i \in 1..Len(spawns) |-> Launched(spawns[i])] =
       [i \in 1..Len(First.spawns) |-> Launched(First.spawns[i])]
    /\ First.result = result

\* C29, a failing pair: the second child fails in both runs
C29_WitnessFailure ==
    /\ Second /\ pc = "exited" /\ Rejected
    /\ cfg # <<>> /\ ~Config.debug
    /\ Len(spawns) = 2 /\ Len(First.spawns) = 2 /\ SameOutcomes(2)
    /\ First.result = result /\ exitCode = <<1>>

\* C29, pre-commit: the override of the lint glob wins over the process's
C29_WitnessEnv ==
    /\ Second /\ InMain("pre-commit") /\ Resolved
    /\ spawns[1].env["TS_SCRIPTS_LINT_GLOB"] = ESLINT_GLOB
    /\ ProcessEnv["TS_SCRIPTS_LINT_GLOB"] # ESLINT_GLOB

\* the paths child i hands to rimraf
Deleted(i) == Range(spawns[i].args)

\* C30: the clean step of build never hands a configured project path to
\* the delete tool: whether or not a project path ends in .json, a rimraf
\* child is given it only when a dist entry names the same path.
C30_NeverDeletesProject ==
    (InMain("build") /\ cfg # <<>>) =>
        \A i \in 1..Len(spawns) :
            IsTool(i, "rimraf") =>
                \A k \in 1..Len(Config.project) :
                    Config.project[k] \in Deleted(i) => Config.project[k] \in Range(Config.dist)

\* C30 for the project paths that end in .json: rimraf is given the
\* .tsbuildinfo beside such a project and never the project itself, unless a
\* dist entry names it.
C30_JsonProjectsKept ==
    (InMain("build") /\ cfg # <<>>) =>
        \A i \in 1..Len(spawns) :
            IsTool(i, "rimraf") =>
                \A k \in 1..Len(Config.project) :
                    LET project == Config.project[k] IN
                    (project # <<>> /\ Last(project) = ".json") =>
                        /\ JsonSwapped(project) # project
                        /\ JsonSwapped(project) \in Deleted(i)
                        /\ project \in Deleted(i) => project \in Range(Config.dist)

====
